---- MODULE Spec2Model ----
(***************************************************************************)
(* A model of mvemu.chip8: the CHIP-8 virtual machine of src/src/system.c  *)
(* (registers, call stack, RAM, key snapshot, the CPU-clock callback       *)
(* consume_ins and its opcode handlers) and the display buffer of          *)
(* src/src/display.c.                                                      *)
(*                                                                         *)
(* Representation.  `pixels' is a C array of 2048 bytes, kept as the        *)
(* function from the indices that hold a non-zero byte to that byte; an    *)
(* index outside its domain holds 0 (MemGet / MemSet).  `ram' is a C array *)
(* of 4096 bytes, kept as its difference from the image init_system loads  *)
(* (zeroes, the ROM `rom' at rom_off, the font sprites at font_offset): an *)
(* index outside its domain holds the byte of the image (RamRead /         *)
(* RamWrite).  Every array content has exactly one such representation.    *)
(*                                                                         *)
(* Undefined behaviour.  The handlers index `ram', `stack' and `key_state'  *)
(* without any check.  The model records the first out-of-bounds access    *)
(* in `fault' at the moment it is made, with the offending index, and      *)
(* explores nothing after it: what the process does next is not defined    *)
(* by the program.                                                         *)
(***************************************************************************)
EXTENDS Integers, Sequences, FiniteSets, TLC

\* ------------------------------------------------------------- constants

\* system.h: #define RAM_SZ 4096
RAM_SZ == 4096
\* system.c: static uint16_t stack[16]
STACK_SZ == 16
\* system.c: static uint8_t key_state[16]
NKEYS == 16
\* display.c: pixels[32 * 64]
SCREEN_W == 64
SCREEN_H == 32
\* system.h: #define TIMER_HZ 60 (the literal 60 of ins_FX07 / ins_FX15)
TIMER_HZ == 60
\* update_keystate: uint8_t ret = 0xff
KEY_NONE == 255

\* ---------------------------------------------------------------- bounds

\* Longest ROM, in instruction words, that Init draws.
MaxRomLen == 2
\* Most instruction fetches explored in one run.
MaxFetch == 6
\* Most CPU-clock firings in flight at once in the overlapping-firing model.
MaxFirings == 2

\* ------------------------------------------------------- integer helpers

Byte == 0 .. 255

U8(n) == n % 256

U16(n) == n % 65536

RECURSIVE BitOp(_, _, _, _)
\* The C operators | & ^ on two n-bit operands, bit by bit.
BitOp(op, a, b, n) ==
    IF n = 0 THEN 0
    ELSE LET x == a % 2
             y == b % 2
             r == CASE op = "or"  -> (IF x + y > 0 THEN 1 ELSE 0)
                    [] op = "and" -> x * y
                    [] op = "xor" -> (x + y) % 2
         IN  r + 2 * BitOp(op, a \div 2, b \div 2, n - 1)

BitOr(a, b) == BitOp("or", a, b, 8)

BitAnd(a, b) == BitOp("and", a, b, 8)

BitXor(a, b) == BitOp("xor", a, b, 8)

\* ----------------------------------------------------------- byte arrays

MemGet(mem, a) == IF a \in DOMAIN mem THEN mem[a] ELSE 0

MemSet(mem, a, v) ==
    IF v = 0
    THEN [b \in (DOMAIN mem) \ {a} |-> mem[b]]
    ELSE [b \in (DOMAIN mem) \cup {a} |-> IF b = a THEN v ELSE mem[b]]

\* memset(p, 0, sizeof): every index holds 0; for ram, the loaded image.
MemZero == [b \in {} |-> 0]

\* system.c: font_sprites[]
font_sprites ==
    << 240, 144, 144, 144, 240,      32,  96,  32,  32, 112,
       240,  16, 240, 128, 240,     240,  16, 240,  16, 240,
       144, 144, 240,  16,  16,     240, 128, 240,  16, 240,
       240, 128, 240, 144, 240,     240,  16,  32,  64,  64,
       240, 144, 240, 144, 240,     240, 144, 240,  16, 240,
       240, 144, 240, 144, 144,     224, 144, 224, 144, 224,
       240, 128, 128, 128, 240,     224, 144, 144, 144, 224,
       240, 128, 240, 128, 240,     240, 128, 240, 128, 128 >>


\* ------------------------------------------------------------------ state

VARIABLES
    regs,         \* struct chip8_regs: V[16], I, PC, SP (DT and ST are never used)
    stack,        \* uint16_t stack[16]
    rom,          \* the bytes of the ROM file
    ram,          \* the 4096 bytes of emulated RAM
    pixels,       \* display.c: uint8_t pixels[32 * 64]
    key_state,    \* key snapshot of the last update_keystate
    keyboard,     \* the physical keys, as SDL_GetKeyboardState reports them
    settings,     \* font_offset, ref_interval, new_shift, lazy_render, rom_off
    quit,         \* breaks the main loop of sys_start
    quit_event,   \* an SDL_QUIT event is waiting in the event queue
    cpu_armed,    \* the CPU interval timer is armed
    rbp,          \* consume_ins: static rbp, the first call frame (0: not set)
    cycle,        \* consume_ins: static cycle
    delay_timer,  \* remaining it_value of the delay timer, [sec, nsec]
    sound_timer,  \* remaining it_value of the sound timer, [sec, nsec]
    playing,      \* the audio stream is started
    fault,        \* the first out-of-bounds array access, or NoFault
    firings,      \* consume_ins calls in flight: frame -> position, fetched word
    sound_calls,  \* sound_timeout calls dispatched that have not run yet
    nfetch,       \* number of instruction fetches so far
    last          \* what the last finished firing did

vars == << regs, stack, rom, ram, pixels, key_state, keyboard, settings, quit,
           quit_event, cpu_armed, rbp, cycle, delay_timer, sound_timer,
           playing, fault, firings, sound_calls, nfetch, last >>

NoFault == [kind |-> "none", index |-> 0]

Disarmed == [sec |-> 0, nsec |-> 0]

\* The part of the state the opcode handlers work on, as one record.
Machine ==
    [ regs |-> regs, stack |-> stack, rom |-> rom, cfg |-> settings,
      ram |-> ram, pixels |-> pixels,
      key_state |-> key_state, delay_timer |-> delay_timer,
      sound_timer |-> sound_timer, playing |-> playing,
      fault |-> fault, presents |-> 0, logged |-> FALSE ]

SetV(m, x, v) == [m EXCEPT !.regs.V[x] = v]

SetPC(m, pc) == [m EXCEPT !.regs.PC = pc]

\* An array is indexed outside its bounds: undefined behaviour from here on.
Fault(m, kind, index) == [m EXCEPT !.fault = [kind |-> kind, index |-> index]]

\* Log as it would be if RET() ended the process like DIE().
Log_die(m) == [m EXCEPT !.logged = TRUE, !.fault = [kind |-> "exit", index |-> 0]]

\* diagnostic written by ERROR() / RET()
Log(m) == [m EXCEPT !.logged = TRUE]

\* init_system: memset(ram, 0), then read(fd, ram + rom_off, st_size), then
\* memmove(ram + font_offset, font_sprites): the byte at index a afterwards.
ImageAt(bytes, cfg, a) ==
    IF a >= cfg.font_offset /\ a < cfg.font_offset + Len(font_sprites)
    THEN font_sprites[a - cfg.font_offset + 1]
    ELSE IF a >= cfg.rom_off /\ a < cfg.rom_off + Len(bytes)
    THEN bytes[a - cfg.rom_off + 1]
    ELSE 0

\* ((uint8_t *) ram)[a], for a in 0 .. RAM_SZ - 1
RamRead(m, a) ==
    IF a \in DOMAIN m.ram THEN m.ram[a] ELSE ImageAt(m.rom, m.cfg, a)

\* ((uint8_t *) ram)[a] = v, for a in 0 .. RAM_SZ - 1
RamWrite(m, a, v) ==
    IF v = ImageAt(m.rom, m.cfg, a)
    THEN [m EXCEPT !.ram = [b \in (DOMAIN @) \ {a} |-> @[b]]]
    ELSE [m EXCEPT !.ram = [b \in (DOMAIN @) \cup {a} |->
                               IF b = a THEN v ELSE @[b]]]

RECURSIVE RamCopy(_, _, _, _)
\* memmove(ram + at, src, Len(src)) for a source given as a sequence of bytes
RamCopy(m, at, src, k) ==
    IF k > Len(src) THEN m
    ELSE RamCopy(RamWrite(m, at + k - 1, src[k]), at, src, k + 1)

\* refresh_display that blanks the buffer it presents
refresh_display_wipe(m) == [m EXCEPT !.presents = @ + 1, !.pixels = MemZero]

\* display.c: refresh_display
refresh_display(m) == [m EXCEPT !.presents = @ + 1]

\* ------------------------------------------------------- update_keystate

RECURSIVE FirstNew(_, _, _)
\* the loop of update_keystate: the lowest i with !key_state[i] && new_state[i]
FirstNew(old, new, i) ==
    IF i >= NKEYS THEN KEY_NONE
    ELSE IF old[i] = 0 /\ new[i] # 0 THEN i
    ELSE FirstNew(old, new, i + 1)

\* update_keystate that never records a release
update_keystate_sticky(old, new_state) ==
    [ret |-> FirstNew(old, new_state, 0),
     key_state |-> [i \in DOMAIN old |-> IF new_state[i] # 0 THEN new_state[i] ELSE old[i]]]

\* returns [ret, key_state]
update_keystate(old, new_state) ==
    [ret |-> FirstNew(old, new_state, 0), key_state |-> new_state]

\* ---------------------------------------------------------------- display

\* display.c: clear_screen (the logical representation)
clear_screen(px) == MemZero

\* *pxp |= npx for a sprite bit that is 1
Flip_or(old) == 1

\* *pxp ^= npx for a sprite bit that is 1
Flip(old) == IF old % 2 = 1 THEN old - 1 ELSE old + 1

\* display.c: the inner loop of display_sprite, over the pixels j = 0 .. 7 of
\* the sprite line `byte' on screen line cy.  The eight iterations touch eight
\* different cells, so their effects are taken together: hit is the set of
\* cells whose sprite bit is 1, off the cells among them that end at 0.
SpriteRow(px, x, cy, byte, collision) ==
    LET hit == {cy * SCREEN_W + ((x + j) % SCREEN_W) :
                    j \in {k \in 0 .. 7 : (byte \div (2 ^ (7 - k))) % 2 = 1}}
        off == {p \in hit : Flip(MemGet(px, p)) = 0}
    IN  [pixels    |-> [p \in ((DOMAIN px) \cup hit) \ off |->
                           IF p \in hit THEN Flip(MemGet(px, p)) ELSE px[p]],
         \* collision |= (!*pxp && npx)
         collision |-> IF off # {} THEN 1 ELSE collision]

RECURSIVE SpriteLoop(_, _, _, _, _, _, _)
RECURSIVE SpriteNext(_, _, _, _, _, _)
\* display.c: the outer loop of display_sprite, over the sprite lines i
SpriteLoop(px, x, y, src, n, i, collision) ==
    IF i >= n THEN [pixels |-> px, collision |-> collision]
    ELSE SpriteNext(SpriteRow(px, x, (y + i) % SCREEN_H, src[i + 1], collision),
                    x, y, src, n, i)

\* the outer loop goes on from the result r of line i
SpriteNext(r, x, y, src, n, i) ==
    SpriteLoop(r.pixels, x, y, src, n, i + 1, r.collision)

\* display.c: display_sprite; src is the n sprite bytes
display_sprite(px, x, y, src, n) == SpriteLoop(px, x, y, src, n, 0, 0)

\* --------------------------------------------------- instruction handlers
\* Each handler maps the machine record to the machine record after it.

\* 00E0 - clear screen
\* 00E0 that clears the flag register as well
ins_00E0_flag(m, lazy_render) ==
    LET m1 == [m EXCEPT !.pixels = clear_screen(m.pixels), !.regs.V[15] = 0]
    IN  IF lazy_render THEN refresh_display(m1) ELSE m1

ins_00E0(m, lazy_render) ==
    LET m1 == [m EXCEPT !.pixels = clear_screen(m.pixels)]
    IN  IF lazy_render THEN refresh_display(m1) ELSE m1

\* 00EE - regs.PC = stack[--regs.SP]
ins_00EE(m) ==
    LET sp == U8(m.regs.SP - 1)
        m1 == [m EXCEPT !.regs.SP = sp]
    IN  IF sp >= STACK_SZ THEN Fault(m1, "stack", sp)
        ELSE SetPC(m1, m.stack[sp])

\* 1NNN that leaves the program counter alone
ins_1NNN_stay(m, nnn) == m

\* 1NNN - jump
ins_1NNN(m, nnn) == SetPC(m, nnn)

\* 2NNN that pushes the address of the call itself
ins_2NNN_self(m, nnn) ==
    LET sp == m.regs.SP
        m1 == [m EXCEPT !.regs.SP = U8(sp + 1)]
    IN  IF sp >= STACK_SZ THEN Fault(m1, "stack", sp)
        ELSE SetPC([m1 EXCEPT !.stack[sp] = U16(m.regs.PC - 2)], nnn)

\* 2NNN - stack[regs.SP++] = regs.PC; regs.PC = nnn
ins_2NNN(m, nnn) ==
    LET sp == m.regs.SP
        m1 == [m EXCEPT !.regs.SP = U8(sp + 1)]
    IN  IF sp >= STACK_SZ THEN Fault(m1, "stack", sp)
        ELSE SetPC([m1 EXCEPT !.stack[sp] = m.regs.PC], nnn)

\* regs.PC += 2 * (condition)
Skip(m, cond) == IF cond THEN SetPC(m, U16(m.regs.PC + 2)) ELSE m

ins_3XKK(m, x, kk) == Skip(m, m.regs.V[x] = kk)

ins_4XKK(m, x, kk) == Skip(m, m.regs.V[x] # kk)

ins_5XY0(m, x, y) == Skip(m, m.regs.V[x] = m.regs.V[y])

ins_6XKK(m, x, kk) == SetV(m, x, kk)

ins_7XKK(m, x, kk) == SetV(m, x, U8(m.regs.V[x] + kk))

ins_8XY0(m, x, y) == SetV(m, x, m.regs.V[y])

\* 8XY1 without the line that clears VF.
ins_8XY1_keepVF(m, x, y) == SetV(m, x, BitOr(m.regs.V[x], m.regs.V[y]))

\* 8XY1 - regs.V[x] |= regs.V[y]; regs.VF = 0
ins_8XY1(m, x, y) == SetV(SetV(m, x, BitOr(m.regs.V[x], m.regs.V[y])), 15, 0)

\* 8XY2 - regs.V[x] &= regs.V[y]; regs.VF = 0
ins_8XY2(m, x, y) == SetV(SetV(m, x, BitAnd(m.regs.V[x], m.regs.V[y])), 15, 0)

\* 8XY3 - regs.V[x] ^= regs.V[y]; regs.VF = 0
ins_8XY3(m, x, y) == SetV(SetV(m, x, BitXor(m.regs.V[x], m.regs.V[y])), 15, 0)

\* 8XY4 that does not write the flag
ins_8XY4_noCarry(m, x, y) == SetV(m, x, U8(m.regs.V[x] + m.regs.V[y]))

\* 8XY4 - regs.VF = (Vx + Vy) > 0xff; regs.V[x] = Vx + Vy
ins_8XY4(m, x, y) ==
    LET Vx == m.regs.V[x]
        Vy == m.regs.V[y]
    IN  SetV(SetV(m, 15, IF Vx + Vy > 255 THEN 1 ELSE 0), x, U8(Vx + Vy))

\* 8XY5 - regs.VF = Vx > Vy; regs.V[x] = Vx - Vy
ins_8XY5(m, x, y) ==
    LET Vx == m.regs.V[x]
        Vy == m.regs.V[y]
    IN  SetV(SetV(m, 15, IF Vx > Vy THEN 1 ELSE 0), x, U8(Vx - Vy + 256))

\* 8XY6 without `if (new_shift) y = x'
ins_8XY6_ignoreMode(m, x, y, new_shift) ==
    SetV(SetV(m, x, m.regs.V[y] \div 2), 15, m.regs.V[y] % 2)

\* 8XY6 - regs.V[x] = Vy >> 1; regs.VF = Vy & 0x01
ins_8XY6(m, x, y, new_shift) ==
    LET Vy == m.regs.V[IF new_shift THEN x ELSE y]
    IN  SetV(SetV(m, x, Vy \div 2), 15, Vy % 2)

\* 8XY7 - regs.VF = Vy > Vx; regs.V[x] = Vy - Vx
ins_8XY7(m, x, y) ==
    LET Vx == m.regs.V[x]
        Vy == m.regs.V[y]
    IN  SetV(SetV(m, 15, IF Vy > Vx THEN 1 ELSE 0), x, U8(Vy - Vx + 256))

\* 8XYE with the two assignments in the order of 8XY4
ins_8XYE_flagFirst(m, x, y, new_shift) ==
    LET Vy == m.regs.V[IF new_shift THEN x ELSE y]
    IN  SetV(SetV(m, 15, Vy \div 128), x, U8(Vy * 2))

\* 8XYE - regs.V[x] = Vy << 1; regs.VF = (Vy & 0x80) >> 7
ins_8XYE(m, x, y, new_shift) ==
    LET Vy == m.regs.V[IF new_shift THEN x ELSE y]
    IN  SetV(SetV(m, x, U8(Vy * 2)), 15, Vy \div 128)

ins_9XY0(m, x, y) == Skip(m, m.regs.V[x] # m.regs.V[y])

ins_ANNN(m, nnn) == [m EXCEPT !.regs.I = nnn]

\* BNNN - regs.PC = (nnn + regs.V[0]) & 0x0fff
ins_BNNN(m, nnn) == SetPC(m, (nnn + m.regs.V[0]) % 4096)

\* CXKK - regs.V[x] = random() & kk
ins_CXKK(m, x, kk, rnd) == SetV(m, x, BitAnd(U8(rnd), kk))

\* DXYN with the return value of display_sprite dropped
ins_DXYN_noFlag(m, x, y, n, lazy_render) ==
    LET src == [i \in 1 .. n |-> RamRead(m, m.regs.I + i - 1)]
    IN  [m EXCEPT !.pixels =
            display_sprite(m.pixels, m.regs.V[x], m.regs.V[y], src, n).pixels]

\* DXYN - regs.VF = display_sprite(Vx, Vy, ram + regs.I, n)
ins_DXYN(m, x, y, n, lazy_render) ==
    IF n > 0 /\ m.regs.I + n > RAM_SZ
    THEN Fault(m, "ram", IF m.regs.I >= RAM_SZ THEN m.regs.I ELSE RAM_SZ)
    ELSE LET src == [i \in 1 .. n |-> RamRead(m, m.regs.I + i - 1)]
             r   == display_sprite(m.pixels, m.regs.V[x], m.regs.V[y], src, n)
             m1  == SetV([m EXCEPT !.pixels = r.pixels], 15, r.collision)
         IN  IF lazy_render THEN refresh_display(m1) ELSE m1

\* EX9E - update_keystate(); regs.PC += 2 * key_state[regs.V[x]]
ins_EX9E(m, x, new_state) ==
    LET u  == update_keystate(m.key_state, new_state)
        m1 == [m EXCEPT !.key_state = u.key_state]
        k  == m.regs.V[x]
    IN  IF k >= NKEYS THEN Fault(m1, "key_state", k)
        ELSE SetPC(m1, U16(m.regs.PC + 2 * u.key_state[k]))

\* EXA1 that tests the snapshot of the previous refresh
ins_EXA1_stale(m, x, new_state) ==
    LET u  == update_keystate(m.key_state, new_state)
        m1 == [m EXCEPT !.key_state = u.key_state]
        k  == m.regs.V[x]
    IN  IF k >= NKEYS THEN Fault(m1, "key_state", k)
        ELSE Skip(m1, m.key_state[k] = 0)

\* EXA1 - update_keystate(); regs.PC += 2 * !key_state[regs.V[x]]
ins_EXA1(m, x, new_state) ==
    LET u  == update_keystate(m.key_state, new_state)
        m1 == [m EXCEPT !.key_state = u.key_state]
        k  == m.regs.V[x]
    IN  IF k >= NKEYS THEN Fault(m1, "key_state", k)
        ELSE Skip(m1, u.key_state[k] = 0)

\* FX07 - regs.V[x] = 0; then tv_sec * 60 + tv_nsec * 60 / 1e9, unless the
\* query fails
\* tv_nsec * 60 / 1e9, truncated; computed as 3 * ns / 5e7 in two parts to stay
\* inside 32 bits
Ticks(ns) == 3 * (ns \div 50000000) + (3 * (ns % 50000000)) \div 50000000

ins_FX07(m, x, gettime_fails) ==
    LET m1 == SetV(m, x, 0)
        t  == m.delay_timer
    IN  IF gettime_fails THEN Log(m1)
        ELSE SetV(m1, x, U8(t.sec * TIMER_HZ + Ticks(t.nsec)))

\* FX0A that never rewinds the program counter
ins_FX0A_once(m, x, new_state) ==
    LET u == update_keystate(m.key_state, new_state)
    IN  SetV([m EXCEPT !.key_state = u.key_state], x, u.ret)

\* FX0A - regs.V[x] = update_keystate(); if (regs.V[x] > 0x0f) regs.PC -= 2
ins_FX0A(m, x, new_state) ==
    LET u  == update_keystate(m.key_state, new_state)
        m1 == SetV([m EXCEPT !.key_state = u.key_state], x, u.ret)
    IN  IF u.ret > 15 THEN SetPC(m1, U16(m.regs.PC - 2 + 65536)) ELSE m1

\* the struct itimerspec of FX15 / FX18: Vx / 60 s, Vx % 60 * 1e9 / 60 ns
\* (1e9 = 60 * 16666666 + 40, which keeps the product inside 32 bits)
Interval(v) ==
    [sec  |-> v \div TIMER_HZ,
     nsec |-> (v % TIMER_HZ) * 16666666 + ((v % TIMER_HZ) * 40) \div TIMER_HZ]

\* FX15 that arms the delay timer one tick too long
ins_FX15_tick(m, x, settime_fails) ==
    IF settime_fails THEN Log(m)
    ELSE [m EXCEPT !.delay_timer = Interval(m.regs.V[x] + 1)]

\* FX15 - arm the delay timer with Vx
ins_FX15(m, x, settime_fails) ==
    IF settime_fails THEN Log(m)
    ELSE [m EXCEPT !.delay_timer = Interval(m.regs.V[x])]

\* sound.c: start_playback
start_playback(m, start_fails) ==
    IF start_fails THEN Log(m) ELSE [m EXCEPT !.playing = TRUE]

\* sound.c: stop_playback
stop_playback(m, stop_fails) ==
    IF stop_fails THEN Log(m) ELSE [m EXCEPT !.playing = FALSE]

\* FX18 that arms the delay timer as well
ins_FX18_both(m, x, settime_fails, start_fails) ==
    IF settime_fails THEN Log(m)
    ELSE start_playback([m EXCEPT !.sound_timer = Interval(m.regs.V[x]),
                                  !.delay_timer = Interval(m.regs.V[x])],
                        start_fails)

\* FX18 - arm the sound timer with Vx, then start playback
ins_FX18(m, x, settime_fails, start_fails) ==
    IF settime_fails THEN Log(m)
    ELSE start_playback([m EXCEPT !.sound_timer = Interval(m.regs.V[x])],
                        start_fails)

\* FX1E that leaves VF alone
ins_FX1E_noFlag(m, x) == [m EXCEPT !.regs.I = U16(m.regs.I + m.regs.V[x]) % 4096]

\* FX1E - regs.I += regs.V[x]; regs.VF = regs.I > 0x0fff; regs.I &= 0x0fff
ins_FX1E(m, x) ==
    LET sum == U16(m.regs.I + m.regs.V[x])
        m1  == SetV([m EXCEPT !.regs.I = sum], 15, IF sum > 4095 THEN 1 ELSE 0)
    IN  [m1 EXCEPT !.regs.I = sum % 4096]

\* FX29 - regs.I = font_offset + 5 * (regs.V[x] & 0x0f)
ins_FX29(m, x, font_offset) ==
    [m EXCEPT !.regs.I = U16(font_offset + 5 * (m.regs.V[x] % 16))]

\* FX33 - _ram[regs.I + 0 .. 2] = hundreds, tens, units of Vx
ins_FX33(m, x) ==
    LET i == m.regs.I
        v == m.regs.V[x]
    IN  IF i + 2 >= RAM_SZ
        THEN Fault(m, "ram", IF i >= RAM_SZ THEN i ELSE RAM_SZ)
        ELSE RamWrite(RamWrite(RamWrite(m, i, (v \div 100) % 10),
                                i + 1, (v \div 10) % 10),
                      i + 2, v % 10)

\* FX55 that copies one byte fewer than x + 1
ins_FX55_short(m, x) ==
    [RamCopy(m, m.regs.I, [k \in 1 .. x |-> m.regs.V[k - 1]], 1)
        EXCEPT !.regs.I = U16(m.regs.I + x + 1)]

\* FX55 - memmove(ram + regs.I, regs.V, x + 1); regs.I += x + 1
ins_FX55(m, x) ==
    LET i == m.regs.I
    IN  IF i + x + 1 > RAM_SZ
        THEN Fault(m, "ram", IF i >= RAM_SZ THEN i ELSE RAM_SZ)
        ELSE [RamCopy(m, i, [k \in 1 .. x + 1 |-> m.regs.V[k - 1]], 1)
                  EXCEPT !.regs.I = U16(i + x + 1)]

\* FX65 that zeroes the first byte it has read
ins_FX65_consume(m, x) ==
    LET i == m.regs.I
    IN  IF i + x + 1 > RAM_SZ
        THEN Fault(m, "ram", IF i >= RAM_SZ THEN i ELSE RAM_SZ)
        ELSE [RamWrite(m, i, 0)
                 EXCEPT !.regs.V = [k \in 0 .. 15 |->
                                      IF k <= x THEN RamRead(m, i + k) ELSE @[k]],
                        !.regs.I = U16(i + x + 1)]

\* FX65 - memmove(regs.V, ram + regs.I, x + 1); regs.I += x + 1
ins_FX65(m, x) ==
    LET i == m.regs.I
    IN  IF i + x + 1 > RAM_SZ
        THEN Fault(m, "ram", IF i >= RAM_SZ THEN i ELSE RAM_SZ)
        ELSE [m EXCEPT !.regs.V = [k \in 0 .. 15 |->
                                      IF k <= x THEN RamRead(m, i + k) ELSE @[k]],
                       !.regs.I = U16(i + x + 1)]

\* ------------------------------------------------------------ consume_ins

\* The handler the two switch levels of consume_ins select for `ins':
\* "unknown" for a default: branch (logged, return), "none" for class 0xF
\* with no matching case (the inner switch has no default).
Decode(ins) ==
    LET class == ins \div 4096
        n     == ins % 16
        kk    == ins % 256
    IN  CASE class = 0  -> (IF ins = 224 THEN "00E0"
                            ELSE IF ins = 238 THEN "00EE" ELSE "unknown")
          [] class = 1  -> "1NNN"
          [] class = 2  -> "2NNN"
          [] class = 3  -> "3XKK"
          [] class = 4  -> "4XKK"
          [] class = 5  -> (IF n = 0 THEN "5XY0" ELSE "unknown")
          [] class = 6  -> "6XKK"
          [] class = 7  -> "7XKK"
          [] class = 8  -> (CASE n = 0 -> "8XY0" [] n = 1 -> "8XY1"
                              [] n = 2 -> "8XY2" [] n = 3 -> "8XY3"
                              [] n = 4 -> "8XY4" [] n = 5 -> "8XY5"
                              [] n = 6 -> "8XY6" [] n = 7 -> "8XY7"
                              [] n = 14 -> "8XYE" [] OTHER -> "unknown")
          [] class = 9  -> (IF n = 0 THEN "9XY0" ELSE "unknown")
          [] class = 10 -> "ANNN"
          [] class = 11 -> "BNNN"
          [] class = 12 -> "CXKK"
          [] class = 13 -> "DXYN"
          [] class = 14 -> (CASE kk = 158 -> "EX9E" [] kk = 161 -> "EXA1"
                              [] OTHER -> "unknown")
          [] class = 15 -> (CASE kk = 7  -> "FX07" [] kk = 10 -> "FX0A"
                              [] kk = 21 -> "FX15" [] kk = 24 -> "FX18"
                              [] kk = 30 -> "FX1E" [] kk = 41 -> "FX29"
                              [] kk = 51 -> "FX33" [] kk = 85 -> "FX55"
                              [] kk = 101 -> "FX65" [] OTHER -> "none")

\* What the environment hands one firing: the physical key state, the value
\* of random(), and whether timer_gettime, timer_settime and Pa_StartStream fail.
NoInput(keys) ==
    [keys |-> keys, rnd |-> 0, gettime_fails |-> FALSE,
     settime_fails |-> FALSE, start_fails |-> FALSE]

\* The call the case labelled h of the switch makes, with the operands
\* consume_ins has extracted from the word.
Call(h, m, ins, inp, cfg) ==
    LET nnn == ins % 4096
        kk  == ins % 256
        n   == ins % 16
        x   == (ins \div 256) % 16
        y   == (ins \div 16) % 16
    IN  CASE h = "unknown" -> Log(m)
          [] h = "none" -> m
          [] h = "00E0" -> ins_00E0(m, cfg.lazy_render)
          [] h = "00EE" -> ins_00EE(m)
          [] h = "1NNN" -> ins_1NNN(m, nnn)
          [] h = "2NNN" -> ins_2NNN(m, nnn)
          [] h = "3XKK" -> ins_3XKK(m, x, kk)
          [] h = "4XKK" -> ins_4XKK(m, x, kk)
          [] h = "5XY0" -> ins_5XY0(m, x, y)
          [] h = "6XKK" -> ins_6XKK(m, x, kk)
          [] h = "7XKK" -> ins_7XKK(m, x, kk)
          [] h = "8XY0" -> ins_8XY0(m, x, y)
          [] h = "8XY1" -> ins_8XY1(m, x, y)
          [] h = "8XY2" -> ins_8XY2(m, x, y)
          [] h = "8XY3" -> ins_8XY3(m, x, y)
          [] h = "8XY4" -> ins_8XY4(m, x, y)
          [] h = "8XY5" -> ins_8XY5(m, x, y)
          [] h = "8XY6" -> ins_8XY6(m, x, y, cfg.new_shift)
          [] h = "8XY7" -> ins_8XY7(m, x, y)
          [] h = "8XYE" -> ins_8XYE(m, x, y, cfg.new_shift)
          [] h = "9XY0" -> ins_9XY0(m, x, y)
          [] h = "ANNN" -> ins_ANNN(m, nnn)
          [] h = "BNNN" -> ins_BNNN(m, nnn)
          [] h = "CXKK" -> ins_CXKK(m, x, kk, inp.rnd)
          [] h = "DXYN" -> ins_DXYN(m, x, y, n, cfg.lazy_render)
          [] h = "EX9E" -> ins_EX9E(m, x, inp.keys)
          [] h = "EXA1" -> ins_EXA1(m, x, inp.keys)
          [] h = "FX07" -> ins_FX07(m, x, inp.gettime_fails)
          [] h = "FX0A" -> ins_FX0A(m, x, inp.keys)
          [] h = "FX15" -> ins_FX15(m, x, inp.settime_fails)
          [] h = "FX18" -> ins_FX18(m, x, inp.settime_fails, inp.start_fails)
          [] h = "FX1E" -> ins_FX1E(m, x)
          [] h = "FX29" -> ins_FX29(m, x, cfg.font_offset)
          [] h = "FX33" -> ins_FX33(m, x)
          [] h = "FX55" -> ins_FX55(m, x)
          [] h = "FX65" -> ins_FX65(m, x)

\* The dispatch of consume_ins: the machine after the handler of `ins'.
Execute(m, ins, inp, cfg) == Call(Decode(ins), m, ins, inp, cfg)

\* ins = ntohs(*(uint16_t *)(ram + regs.PC)): high byte at PC, low at PC + 1
FetchWord(m, pc) == RamRead(m, pc) * 256 + RamRead(m, pc + 1)

\* The fetch of consume_ins and regs.PC += 2: [m, pc, ins].  A program
\* counter above 4094 makes the 16-bit read run past the end of ram.
Fetch(m) ==
    LET pc == m.regs.PC
    IN  IF pc + 1 >= RAM_SZ
        THEN [m |-> Fault(m, "fetch", IF pc >= RAM_SZ THEN pc ELSE RAM_SZ),
              pc |-> pc, ins |-> 0]
        ELSE [m |-> SetPC(m, U16(pc + 2)), pc |-> pc,
              ins |-> FetchWord(m, pc)]

\* The closing `if (!lazy_render && (cycle++ % ref_interval == 0))
\* refresh_display()' of consume_ins, which a default: branch returns
\* before, for the machine m1 the handler left: [m, cycle].
Refresh(m1, unknown, cyc, cfg) ==
    LET ref == ~unknown /\ m1.fault = NoFault /\ ~cfg.lazy_render
    IN  [m |-> IF ref /\ cyc % cfg.ref_interval = 0
               THEN refresh_display(m1) ELSE m1,
         cycle |-> IF ref THEN cyc + 1 ELSE cyc]

\* The switch of consume_ins followed by the closing refresh.
Dispatch(m, ins, cyc, inp, cfg) ==
    Refresh(Execute(m, ins, inp, cfg), Decode(ins) = "unknown", cyc, cfg)

\* What follows the fetch f in consume_ins: [m, cycle, pc, ins, handler].
AfterFetch(f, cyc, inp, cfg) ==
    IF f.m.fault # NoFault
    THEN [m |-> f.m, cycle |-> cyc, pc |-> f.pc, ins |-> 0, handler |-> "fault"]
    ELSE Dispatch(f.m, f.ins, cyc, inp, cfg)
             @@ [pc |-> f.pc, ins |-> f.ins, handler |-> Decode(f.ins)]

\* One fetch-decode-execute cycle: [m, cycle, pc, ins, handler].
Cycle(m, cyc, inp, cfg) == AfterFetch(Fetch(m), cyc, inp, cfg)

\* The inputs that can make a difference to the handler of the next word.
InputsFor(h, keys, rnds) ==
    LET none == NoInput(keys)
    IN  CASE h = "CXKK" -> {[none EXCEPT !.rnd = r] : r \in rnds}
          [] h = "FX07" -> {[none EXCEPT !.gettime_fails = b] : b \in BOOLEAN}
          [] h = "FX15" -> {[none EXCEPT !.settime_fails = b] : b \in BOOLEAN}
          [] h = "FX18" -> {[none EXCEPT !.settime_fails = a, !.start_fails = b] :
                                a \in BOOLEAN, b \in BOOLEAN}
          [] OTHER -> {none}

\* -------------------------------------------------------- initial states

\* The bytes of a ROM given as instruction words, high byte first.
RomBytes(words) ==
    [k \in 1 .. 2 * Len(words) |->
        IF k % 2 = 1 THEN words[(k + 1) \div 2] \div 256
        ELSE words[k \div 2] % 256]

\* settings of cli_args.c with their defaults
DefaultSettings ==
    [rom_off |-> 512, font_offset |-> 80, ref_interval |-> 20,
     new_shift |-> FALSE, lazy_render |-> FALSE]

NoFiring == [kind |-> "none", pc |-> 0, ins |-> 0, handler |-> "none",
             presents |-> 0, logged |-> FALSE]

\* The state when sys_start has armed the CPU clock, for a ROM (a sequence of
\* instruction words) of `roms' and settings of `cfgs'.
InitWith(roms, cfgs) ==
    \E words \in roms, cfg \in cfgs :
        /\ 2 * Len(words) + cfg.rom_off <= RAM_SZ
        /\ rom = RomBytes(words)
        /\ settings = cfg
        /\ regs = [V |-> [k \in 0 .. 15 |-> 0], I |-> 0, PC |-> cfg.rom_off, SP |-> 0]
        /\ stack = [k \in 0 .. STACK_SZ - 1 |-> 0]
        /\ ram = MemZero
        /\ pixels = MemZero
        /\ key_state = [k \in 0 .. NKEYS - 1 |-> 0]
        /\ keyboard = [k \in 0 .. NKEYS - 1 |-> 0]
        /\ quit = 0
        /\ quit_event = FALSE
        /\ cpu_armed = TRUE
        /\ rbp = 0
        /\ cycle = 0
        /\ delay_timer = Disarmed
        /\ sound_timer = Disarmed
        /\ playing = FALSE
        /\ fault = NoFault
        /\ firings = << >>
        /\ sound_calls = 0
        /\ nfetch = 0
        /\ last = NoFiring

\* Instruction words of the ROMs of Spec: control flow, memory and index
\* instructions, and one unrecognised word of every class that has one.
Words ==
    { 0,      \* 0000  no handler (class 0)
      224,    \* 00E0  clear screen
      238,    \* 00EE  return
      4609,   \* 1201  jump to an odd address
      8191,   \* 1FFF  jump to the last byte of RAM
      8704,   \* 2200  call 0x200
      12288,  \* 3000  skip if V0 == 0
      20481,  \* 5001  no handler (class 5)
      24579,  \* 6003  V0 = 3
      32776,  \* 8008  no handler (class 8)
      36865,  \* 9001  no handler (class 9)
      45055,  \* AFFF  I = 0xFFF
      49663,  \* B1FF  jump to 0x1FF + V0
      53250,  \* D002  draw 2 rows
      57344,  \* E000  no handler (class E)
      61440,  \* F000  no handler (class F)
      61470,  \* F01E  I += V0
      61491,  \* F033  BCD of V0 at I
      61525,  \* F055  store V0
      61797 } \* F165  load V0, V1

RECURSIVE SeqsUpTo(_, _)
\* the sequences over S of length 1 .. n
SeqsUpTo(S, n) ==
    IF n = 0 THEN {}
    ELSE LET shorter == SeqsUpTo(S, n - 1)
         IN  {<<w>> : w \in S} \cup shorter
             \cup {Append(r, w) : r \in shorter, w \in S}

Init == InitWith(SeqsUpTo(Words, MaxRomLen), {DefaultSettings})

\* --------------------------------------------------------------- actions

\* The call frames a firing's thread can run consume_ins on.
Frames == 1 .. MaxFirings

\* Values of random() & 0xff.
RndVals == {0, 165, 255}

\* The variables a firing that is skipped, or has not reached the fetch,
\* leaves alone.
machine_vars == << regs, stack, ram, pixels, key_state, delay_timer,
                   sound_timer, playing, fault, cycle >>

\* The statics as handlers leave them in the machine m, with cycle count cyc.
Store(m, cyc) ==
    /\ regs' = m.regs
    /\ stack' = m.stack
    /\ ram' = m.ram
    /\ pixels' = m.pixels
    /\ key_state' = m.key_state
    /\ delay_timer' = m.delay_timer
    /\ sound_timer' = m.sound_timer
    /\ playing' = m.playing
    /\ fault' = m.fault
    /\ cycle' = cyc

\* The statics after the cycle c, and the record of what it did.
Commit(c) ==
    /\ Store(c.m, c.cycle)
    /\ last' = [kind |-> "exec", pc |-> c.pc, ins |-> c.ins,
                handler |-> c.handler, presents |-> c.m.presents,
                logged |-> c.m.logged]

\* One whole call of consume_ins on call frame f that no other call overlaps:
\* the event loop, the frame comparison, the fetch-decode-execute cycle and
\* the closing refresh.
ConsumeIns ==
    /\ cpu_armed
    /\ fault = NoFault
    /\ firings = << >>
    /\ nfetch < MaxFetch
    /\ \E f \in Frames :
        LET ref == IF rbp = 0 THEN f ELSE rbp
        IN  /\ quit' = (IF quit_event THEN 1 ELSE quit)
            /\ cpu_armed' = (cpu_armed /\ ~quit_event)
            /\ quit_event' = FALSE
            /\ rbp' = ref
            /\ UNCHANGED << rom, sound_calls, keyboard, settings, firings >>
            /\ IF ref # f
               THEN /\ last' = [NoFiring EXCEPT !.kind = "skipped", !.pc = regs.PC]
                    /\ UNCHANGED << machine_vars, nfetch >>
               ELSE \E inp \in InputsFor(Decode(FetchWord(Machine, regs.PC)),
                                         keyboard, RndVals) :
                    /\ Commit(Cycle(Machine, cycle, inp, settings))
                    /\ nfetch' = nfetch + 1

Next == ConsumeIns

Spec == Init /\ [][Next]_vars

\* ------------------------------------------------- overlapping firings
\* The CPU timer is created with SIGEV_THREAD: every expiry runs consume_ins
\* on a thread of its own, whether or not the previous call has returned.
\* A call in flight is identified by the call frame f it runs on (two live
\* threads never share a stack); firings[f] holds its position and the word
\* it has fetched.  Each action below is one stretch of consume_ins between
\* two accesses to the shared statics.

InFlight(f, pc) == f \in DOMAIN firings /\ firings[f].pc = pc

Goto(f, pc) == firings' = [firings EXCEPT ![f].pc = pc]

\* the CPU timer expires and the call starts on frame f
Fire(f) ==
    /\ cpu_armed
    /\ fault = NoFault
    /\ nfetch < MaxFetch
    /\ f \notin DOMAIN firings
    /\ firings' = [g \in (DOMAIN firings) \cup {f} |->
                     IF g = f THEN [pc |-> "poll", ins |-> 0, at |-> 0,
                                    presents |-> 0, logged |-> FALSE]
                     ELSE firings[g]]
    /\ UNCHANGED << machine_vars, rom, sound_calls, keyboard, settings, quit, quit_event,
                    cpu_armed, rbp, nfetch, last >>

\* while (SDL_PollEvent(&ev)): an SDL_QUIT disarms the CPU timer, sets quit
PollEvents(f) ==
    /\ InFlight(f, "poll")
    /\ quit' = (IF quit_event THEN 1 ELSE quit)
    /\ cpu_armed' = (cpu_armed /\ ~quit_event)
    /\ quit_event' = FALSE
    /\ Goto(f, "test_rbp")
    /\ UNCHANGED << machine_vars, rom, sound_calls, keyboard, settings, rbp, nfetch, last >>

\* if (unlikely(!rbp)): the read of the static rbp
TestRbp(f) ==
    /\ InFlight(f, "test_rbp")
    /\ Goto(f, IF rbp = 0 THEN "set_rbp" ELSE "compare")
    /\ UNCHANGED << machine_vars, rom, sound_calls, keyboard, settings, quit, quit_event,
                    cpu_armed, rbp, nfetch, last >>

\* rbp = _rbp
SetRbp(f) ==
    /\ InFlight(f, "set_rbp")
    /\ rbp' = f
    /\ Goto(f, "compare")
    /\ UNCHANGED << machine_vars, rom, sound_calls, keyboard, settings, quit, quit_event,
                    cpu_armed, nfetch, last >>

\* if (rbp != _rbp) { WAR(...); return; }
CompareRbp(f) ==
    /\ InFlight(f, "compare")
    /\ Goto(f, IF rbp # f THEN "skipped" ELSE "fetch")
    /\ UNCHANGED << machine_vars, rom, sound_calls, keyboard, settings, quit, quit_event,
                    cpu_armed, rbp, nfetch, last >>

\* the firing on frame f holds the result r of its fetch
Fetched(f, r) ==
    /\ regs' = r.m.regs
    /\ fault' = r.m.fault
    /\ firings' = [firings EXCEPT ![f].pc = "decode", ![f].ins = r.ins,
                                  ![f].at = r.pc]

\* ins = ntohs(*(uint16_t *)(ram + regs.PC)); regs.PC += 2
FetchIns(f) ==
    /\ InFlight(f, "fetch")
    /\ fault = NoFault
    /\ Fetched(f, Fetch(Machine))
    /\ nfetch' = nfetch + 1
    /\ UNCHANGED << stack, ram, pixels, key_state, delay_timer, sound_timer,
                    playing, cycle, rom, sound_calls, keyboard, settings, quit, quit_event,
                    cpu_armed, rbp, last >>

\* the firing on frame f has run the switch and the refresh, with result d
Dispatched(f, d) ==
    /\ Store(d.m, d.cycle)
    /\ firings' = [firings EXCEPT ![f].pc = "done",
                                  ![f].presents = d.m.presents,
                                  ![f].logged = d.m.logged]

\* the switch on the fetched word and the closing refresh
DecodeExecute(f) ==
    /\ InFlight(f, "decode")
    /\ fault = NoFault
    /\ \E inp \in InputsFor(Decode(firings[f].ins), keyboard, RndVals) :
        Dispatched(f, Dispatch(Machine, firings[f].ins, cycle, inp, settings))
    /\ UNCHANGED << rom, sound_calls, keyboard, settings, quit, quit_event, cpu_armed,
                    rbp, nfetch, last >>

\* consume_ins returns and its thread ends
Return(f) ==
    /\ f \in DOMAIN firings
    /\ firings[f].pc \in {"skipped", "done"}
    /\ firings' = [g \in (DOMAIN firings) \ {f} |-> firings[g]]
    /\ last' = IF firings[f].pc = "skipped"
               THEN [NoFiring EXCEPT !.kind = "skipped", !.pc = regs.PC]
               ELSE [kind |-> "exec", pc |-> firings[f].at,
                     ins |-> firings[f].ins, handler |-> Decode(firings[f].ins),
                     presents |-> firings[f].presents,
                     logged |-> firings[f].logged]
    /\ UNCHANGED << machine_vars, rom, sound_calls, keyboard, settings, quit, quit_event,
                    cpu_armed, rbp, nfetch >>

\* Instruction words of the ROMs of SpecConc.
ConcWords ==
    { 28673,  \* 7001  V0 += 1
      4608 }  \* 1200  jump to 0x200

InitConc == InitWith(SeqsUpTo(ConcWords, MaxRomLen), {DefaultSettings})

NextConc ==
    \E f \in Frames :
        \/ Fire(f)
        \/ PollEvents(f)
        \/ TestRbp(f)
        \/ SetRbp(f)
        \/ CompareRbp(f)
        \/ FetchIns(f)
        \/ DecodeExecute(f)
        \/ Return(f)

SpecConc == InitConc /\ [][NextConc]_vars

\* ------------------------------------------ register-level specification

\* Operand values loaded into the registers by the ROMs of SpecAlu.
Vals == {0, 85, 128, 255}

\* Register indices the ROMs of SpecAlu use as x and y.
Regs == {0, 1, 15}

\* 6XKK
Ld(x, kk) == 24576 + 256 * x + kk

\* 8XYn
Alu(x, y, n) == 32768 + 256 * x + 16 * y + n

\* The ROMs of SpecAlu: V0 = a; V1 = b; VF = c; then one 8XYn instruction.
AluRoms ==
    { << Ld(0, a), Ld(1, b), Ld(15, c), Alu(x, y, n) >> :
        a \in Vals, b \in Vals, c \in Vals, x \in Regs, y \in Regs,
        n \in {1, 2, 3, 4, 5, 7} }

InitAlu == InitWith(AluRoms, {DefaultSettings})

SpecAlu == InitAlu /\ [][Next]_vars

\* The settings with --new-shift given or not.
ShiftSettings == {[DefaultSettings EXCEPT !.new_shift = b] : b \in BOOLEAN}

\* The ROMs of SpecShift: V0 = a; V1 = b; VF = c; then 8XY6 or 8XYE.
ShiftRoms ==
    { << Ld(0, a), Ld(1, b), Ld(15, c), Alu(x, y, n) >> :
        a \in Vals, b \in Vals, c \in Vals, x \in Regs, y \in Regs,
        n \in {6, 14} }

InitShift == InitWith(ShiftRoms, ShiftSettings)

SpecShift == InitShift /\ [][Next]_vars

\* ANNN
Ldi(nnn) == 40960 + nnn

\* DXYN
Drw(x, y, n) == 53248 + 256 * x + 16 * y + n

\* Start coordinates of SpecDraw: on screen, at the right and bottom edges,
\* and beyond the screen.
DrawAt == {0, 60, 255}

\* The ROMs of SpecDraw: V0 = a; V1 = b; I = the font or the ROM itself; a
\* first draw at (V0, V1) and a second at (V0, V1) or (V1, V0).
DrawRoms ==
    { << Ld(0, a), Ld(1, b), Ldi(i), Drw(0, 1, n), Drw(d[1], d[2], k) >> :
        a \in DrawAt, b \in DrawAt,
        i \in {DefaultSettings.font_offset, DefaultSettings.rom_off},
        n \in {1, 5}, d \in {<<0, 1>>, <<1, 0>>}, k \in {0, 2, 15} }

InitDraw == InitWith(DrawRoms, {DefaultSettings})

SpecDraw == InitDraw /\ [][Next]_vars

\* FX55
St(x) == 61525 + 256 * x

\* FX65
Ldr(x) == 61541 + 256 * x

\* The ROMs of SpecRT: V0..VF loaded from the font bytes; I = i; store V0..Vx;
\* I = i again, or not; load V0..Vx.
RoundTripRoms ==
    { << Ldi(DefaultSettings.font_offset), Ldr(15), Ldi(i), St(x) >>
          \o (IF reset THEN << Ldi(i), Ldr(x) >> ELSE << Ldr(x) >>) :
        i \in {768, 4080}, x \in {0, 1, 7, 15}, reset \in BOOLEAN }

InitRT == InitWith(RoundTripRoms, {DefaultSettings})

SpecRT == InitRT /\ [][Next]_vars

\* The settings of SpecLoop: lazy rendering or not, a refresh on every cycle,
\* on every third, or on every twentieth.
LoopSettings ==
    {[DefaultSettings EXCEPT !.lazy_render = l, !.ref_interval = r] :
        l \in BOOLEAN, r \in {1, 3, 20}}

\* The ROM 00E0 1200 at 0x200: clear the screen, jump back.
InitLoop == InitWith({<< 224, 4608 >>}, LoopSettings)

SpecLoop == InitLoop /\ [][Next]_vars

\* Constants the ROMs of SpecAdd load.
AddVals == {0, 1, 2, 3, 128, 255}

\* The ROMs of SpecAdd: 6Aaa 6Bbb 8AB4.
AddRoms == { << Ld(10, a), Ld(11, b), Alu(10, 11, 4) >> : a \in AddVals, b \in AddVals }

InitAdd == InitWith(AddRoms, {DefaultSettings})

SpecAdd == InitAdd /\ [][Next]_vars

\* Values the ROMs of SpecClear load into VF.
FlagVals == {0, 1, 85}

\* The ROMs of SpecClear: V0 = a; draw n rows of the font at (a, a); VF = f;
\* clear the screen twice.
ClearRoms ==
    { << Ld(0, a), Ldi(DefaultSettings.font_offset), Drw(0, 0, n), Ld(15, f),
         224, 224 >> :
        a \in DrawAt, n \in {0, 1, 5}, f \in FlagVals }

InitClear == InitWith(ClearRoms, LoopSettings)

SpecClear == InitClear /\ [][Next]_vars

\* ------------------------------------------------------------- the clocks
\* delay_timer and sound_timer hold what timer_gettime would return: the time
\* left until the one-shot expires, zero when the timer is disarmed.

\* the time left on a one-shot timer showing t when d nanoseconds (less than
\* a second) have passed
Dec(t, d) ==
    IF t.sec = 0 /\ t.nsec <= d THEN Disarmed
    ELSE IF t.nsec >= d THEN [t EXCEPT !.nsec = t.nsec - d]
    ELSE [sec |-> t.sec - 1, nsec |-> t.nsec + 1000000000 - d]

\* the sound timer expires within the next d nanoseconds
SoundDue(d) == sound_timer # Disarmed /\ Dec(sound_timer, d) = Disarmed

\* Durations, in nanoseconds, of the stretches of time between two firings:
\* a tenth and a quarter of a second.
Durations == {100000000, 250000000}

\* d nanoseconds pass while a timer is armed.  The delay timer (SIGEV_NONE)
\* expires silently; the expiry of the sound timer runs sound_timeout, whose
\* stop_playback fails or not.
Elapse(d) ==
    /\ fault = NoFault
    /\ firings = << >>
    /\ delay_timer # Disarmed \/ sound_timer # Disarmed
    /\ delay_timer' = Dec(delay_timer, d)
    /\ sound_timer' = Dec(sound_timer, d)
    /\ \E stop_fails \in BOOLEAN :
          /\ playing' = IF SoundDue(d)
                        THEN stop_playback(Machine, stop_fails).playing
                        ELSE playing
          /\ last' = [NoFiring EXCEPT !.kind = "elapse",
                                      !.logged = SoundDue(d) /\ stop_fails]
    /\ UNCHANGED << regs, stack, rom, sound_calls, ram, pixels, key_state, keyboard, settings,
                    quit, quit_event, cpu_armed, rbp, cycle, fault, firings,
                    nfetch >>

\* FX15, FX18, FX07 on registers 0, 0 and 1
TimerWords == {61461, 61464, 61703}

\* Values the ROMs of SpecTimers load into V0.
TimerVals == {0, 2, 30}

\* The ROMs of SpecTimers: V0 = v, then timer instructions.
TimerRoms ==
    { << Ld(0, v) >> \o t : v \in TimerVals, t \in SeqsUpTo(TimerWords, MaxRomLen) }

InitTimers == InitWith(TimerRoms, {DefaultSettings})

NextTimers ==
    \/ ConsumeIns
    \/ \E d \in Durations : Elapse(d)

SpecTimers == InitTimers /\ [][NextTimers]_vars

\* ------------------------------------------------------------ the keyboard
\* keyboard is what SDL_GetKeyboardState would return for the 16 mapped keys.

\* The keys that are pressed and released in SpecKeys.
Keys == {3, 15}

\* the user presses or releases key k between two firings
KeyEvent(k) ==
    /\ fault = NoFault
    /\ firings = << >>
    /\ nfetch < MaxFetch
    /\ keyboard' = [keyboard EXCEPT ![k] = 1 - @]
    /\ UNCHANGED << regs, stack, rom, sound_calls, ram, pixels, key_state, settings, quit,
                    quit_event, cpu_armed, rbp, cycle, delay_timer, sound_timer,
                    playing, fault, firings, nfetch, last >>

\* EX9E and EXA1 on V0, FX0A into V1, FX18 on V0
KeyWords == {57502, 57505, 61706, 61464}

\* The ROMs of SpecKeys: V0 = k, then key and sound instructions.
KeyRoms ==
    { << Ld(0, k) >> \o t : k \in Keys, t \in SeqsUpTo(KeyWords, MaxRomLen) }

InitKeys == InitWith(KeyRoms, {DefaultSettings})

NextKeys ==
    \/ ConsumeIns
    \/ \E k \in Keys : KeyEvent(k)
    \/ \E d \in Durations : Elapse(d)

SpecKeys == InitKeys /\ [][NextKeys]_vars

\* ----------------------------------------------------------- initialisation
\* main calls init_system, init_display and sys_start in this order.  last
\* records how far it got: "boot" before init_system, "init" after it, with
\* the step that made it fail ("ok" when none did) in last.handler, then
\* "started" when sys_start has armed the CPU timer, or "exit" when main went
\* to its cleanup instead.

\* The state when main calls init_system, for a ROM file holding the bytes
\* of a sequence of words of `roms' and settings of `cfgs': the statics hold
\* their initial values.
InitBoot(roms, cfgs) ==
    \E words \in roms, cfg \in cfgs :
        /\ rom = RomBytes(words)
        /\ settings = cfg
        /\ regs = [V |-> [k \in 0 .. 15 |-> 0], I |-> 0, PC |-> 0, SP |-> 0]
        /\ stack = [k \in 0 .. STACK_SZ - 1 |-> 0]
        /\ ram = MemZero
        /\ pixels = MemZero
        /\ key_state = [k \in 0 .. NKEYS - 1 |-> 0]
        /\ keyboard = [k \in 0 .. NKEYS - 1 |-> 0]
        /\ quit = 0
        /\ quit_event = FALSE
        /\ cpu_armed = FALSE
        /\ rbp = 0
        /\ cycle = 0
        /\ delay_timer = Disarmed
        /\ sound_timer = Disarmed
        /\ playing = FALSE
        /\ fault = NoFault
        /\ firings = << >>
        /\ sound_calls = 0
        /\ nfetch = 0
        /\ last = [NoFiring EXCEPT !.kind = "boot"]

\* The calls of init_system that can fail, in the order it makes them; the
\* size test comes between fstat and mmap.
InitCalls == {"timer_create", "open", "fstat", "mmap", "read"}

\* init_system that does not test the size of the ROM
InitOutcome_anySize(fail, len, rom_off) ==
    IF fail \in InitCalls THEN fail ELSE "ok"

\* The step that ends init_system when the call `fail' ("none": no call)
\* fails, for a ROM of len bytes loaded at rom_off.
InitOutcome(fail, len, rom_off) ==
    IF fail \in {"timer_create", "open", "fstat"} THEN fail
    ELSE IF len + rom_off > RAM_SZ THEN "too_large"
    ELSE IF fail \in {"mmap", "read"} THEN fail
    ELSE "ok"

\* init_system.  When it succeeds the memory is zeroed, the ROM is read to
\* rom_off and the font is copied to font_offset (the image ImageAt, which ram
\* = MemZero stands for); a font that does not end inside the memory is
\* copied past its end.
init_system ==
    /\ last.kind = "boot"
    /\ \E fail \in InitCalls \cup {"none"} :
          LET out == InitOutcome(fail, Len(rom), settings.rom_off)
          IN  /\ last' = [NoFiring EXCEPT !.kind = "init", !.handler = out,
                                          !.logged = (out # "ok")]
              /\ fault' = IF out = "ok"
                              /\ settings.font_offset + Len(font_sprites) > RAM_SZ
                           THEN [kind |-> "ram",
                                 index |-> IF settings.font_offset >= RAM_SZ
                                           THEN settings.font_offset ELSE RAM_SZ]
                           ELSE NoFault
    /\ ram' = MemZero
    /\ UNCHANGED << regs, stack, rom, sound_calls, pixels, key_state, keyboard, settings, quit,
                    quit_event, cpu_armed, rbp, cycle, delay_timer, sound_timer,
                    playing, firings, nfetch >>

\* main after init_system: cleanup when it failed; otherwise init_display,
\* then sys_start up to the armed CPU timer: regs.PC = pc, timer_settime.
main ==
    /\ last.kind = "init"
    /\ fault = NoFault
    /\ \E display_fails \in BOOLEAN, settime_fails \in BOOLEAN :
          LET reached == last.handler = "ok" /\ ~display_fails
              armed   == reached /\ ~settime_fails
          IN  /\ regs' = IF reached THEN [regs EXCEPT !.PC = settings.rom_off]
                         ELSE regs
              /\ cpu_armed' = armed
              /\ last' = [NoFiring EXCEPT
                             !.kind = IF armed THEN "started" ELSE "exit",
                             !.logged = ~armed]
    /\ UNCHANGED << stack, rom, sound_calls, ram, pixels, key_state, keyboard, settings, quit,
                    quit_event, rbp, cycle, delay_timer, sound_timer, playing,
                    fault, firings, nfetch >>

\* Load offsets of SpecInit: the default, and two that leave room for 2 and
\* for 1 byte.
RomOffsets == {512, 4094, 4095}

\* Font offsets of SpecInit: the default, one that overlaps a ROM at 0x200,
\* the highest that fits, and two that do not fit.
FontOffsets == {80, 510, 4016, 4017, 4090}

InitSettings ==
    {[DefaultSettings EXCEPT !.rom_off = r, !.font_offset = f] :
        r \in RomOffsets, f \in FontOffsets}

\* The ROM files of SpecInit: the empty file, and one or two words.
InitRoms == {<< >>} \cup SeqsUpTo({224, 24579}, 2)

InitInit == InitBoot(InitRoms, InitSettings)

NextInit ==
    \/ init_system
    \/ main
    \/ ConsumeIns

SpecInit == InitInit /\ [][NextInit]_vars

\* ------------------------------------------------------------ cancellation

\* the user closes the window: an SDL_QUIT event waits in the event queue
QuitEvent ==
    /\ cpu_armed
    /\ fault = NoFault
    /\ firings = << >>
    /\ nfetch < MaxFetch
    /\ ~quit_event
    /\ quit_event' = TRUE
    /\ UNCHANGED << regs, stack, rom, sound_calls, ram, pixels, key_state, keyboard, settings,
                    quit, cpu_armed, rbp, cycle, delay_timer, sound_timer,
                    playing, fault, firings, nfetch, last >>

\* sys_start that returns whether or not quit is set
sys_start_early ==
    /\ fault = NoFault
    /\ last.kind # "returned"
    /\ last' = [NoFiring EXCEPT !.kind = "returned", !.ins = 0]
    /\ UNCHANGED << regs, stack, rom, sound_calls, ram, pixels, key_state, keyboard, settings,
                    quit, quit_event, cpu_armed, rbp, cycle, delay_timer,
                    sound_timer, playing, fault, firings, nfetch >>

\* sys_start, from the busy loop on: while (!quit) nop; return 0.  The
\* return and its value 0 are recorded in last.
sys_start ==
    /\ fault = NoFault
    /\ quit # 0
    /\ last.kind # "returned"
    /\ last' = [NoFiring EXCEPT !.kind = "returned", !.ins = 0]
    /\ UNCHANGED << regs, stack, rom, sound_calls, ram, pixels, key_state, keyboard, settings,
                    quit, quit_event, cpu_armed, rbp, cycle, delay_timer,
                    sound_timer, playing, fault, firings, nfetch >>

\* The ROMs of SpecQuit: 00E0 1200 and 6003 1200, loops that never fault.
InitQuit == InitWith({<< 224, 4608 >>, << 24579, 4608 >>}, {DefaultSettings})

NextQuit ==
    \/ ConsumeIns
    \/ QuitEvent
    \/ sys_start

\* The CPU timer is periodic, so an armed timer keeps firing; the main thread
\* keeps running its loop.
SpecQuit ==
    InitQuit /\ [][NextQuit]_vars /\ WF_vars(ConsumeIns) /\ WF_vars(sys_start)

\* The ROMs of SpecErr: V0 = a; V1 = b; then FX15 or FX18 on V0, or FX07 into
\* V1.
ErrRoms ==
    { << Ld(0, a), Ld(1, b), w >> : a \in TimerVals, b \in FlagVals, w \in TimerWords }

InitErr == InitWith(ErrRoms, {DefaultSettings})

SpecErr == InitErr /\ [][Next]_vars

\* FX1E
Addi(x) == 61470 + 256 * x

\* Addresses the ROMs of SpecIndex load into I.
IndexAt == {0, 3840, 4094, 4095}

\* The ROMs of SpecIndex: Vx = v; I = i; FX55 on V0, which leaves I = i + 1,
\* or not; FX1E on Vx.
IndexRoms ==
    { << Ld(x, v), Ldi(i) >> \o (IF bump THEN << St(0) >> ELSE << >>) \o << Addi(x) >> :
        x \in Regs, v \in Vals, i \in IndexAt, bump \in BOOLEAN }

InitIndex == InitWith(IndexRoms, {DefaultSettings})

SpecIndex == InitIndex /\ [][Next]_vars

\* Instruction words of the ROMs of SpecPresent: 0000 (no handler), 00E0,
\* 6003, D002 and F000 (class F, no case).
PresentWords == {0, 224, 24579, 53250, 61440}

InitPresent == InitWith(SeqsUpTo(PresentWords, MaxRomLen), LoopSettings)

SpecPresent == InitPresent /\ [][Next]_vars

\* The ROMs of SpecDelay: V0 = v; FX15 on V0; FX07 into V1.
DelayRoms == { << Ld(0, v), 61461, 61703 >> : v \in 0 .. 255 }

InitDelay == InitWith(DelayRoms, {DefaultSettings})

SpecDelay == InitDelay /\ [][Next]_vars

\* ------------------------------------------------------------ properties

\* The step is a firing that fetched a word and ran handler h on it.
Ran(h) == nfetch' = nfetch + 1 /\ last'.kind = "exec" /\ last'.handler = h

\* x and y of the word the step fetched
OpX == (last'.ins \div 256) % 16

OpY == (last'.ins \div 16) % 16

\* the set of bit positions that are 1 in the byte v
Bits(v) == {i \in 0 .. 7 : (v \div (2 ^ i)) % 2 = 1}

C2_Orig == regs.SP <= STACK_SZ /\ fault.kind # "stack"

\* C3 as stated: every fetch that is performed is at an even program counter
\* with both bytes inside RAM.
C3_Orig == last.kind = "exec" => (last.pc % 2 = 0 /\ last.pc <= RAM_SZ - 2)

\* C4 as stated: no instruction reads or writes a memory index outside
\* 0..4095.
C4_Orig == fault.kind # "ram"

\* C5 as stated: the address register is at most 0x0FFF in every reachable
\* state.
C5_Orig == regs.I <= 4095

\* C6 as stated: at most one firing is inside the fetch-decode-execute cycle
\* at any time; a firing that overlaps another never gets past the guard.
C6_Orig ==
    Cardinality({f \in DOMAIN firings : firings[f].pc \in {"fetch", "decode"}}) <= 1

\* C7 as stated, for firings none of which overlaps another: every firing
\* fetches the big-endian word at the program counter and is never skipped.
C7_Orig ==
    /\ last.kind # "skipped"
    /\ (last.kind = "exec" /\ last.handler # "fault"
          => last.ins = FetchWord(Machine, last.pc))

\* C8: after 8XY1 / 8XY2 / 8XY3, for every x and y, VF is 0 and, for x other
\* than 15, Vx holds the bitwise OR / AND / XOR of the Vx and Vy of before.
C8_BitwiseClearsVF ==
    [][(Ran("8XY1") \/ Ran("8XY2") \/ Ran("8XY3")) =>
         LET a == Bits(regs.V[OpX])
             b == Bits(regs.V[OpY])
             r == CASE last'.handler = "8XY1" -> a \cup b
                    [] last'.handler = "8XY2" -> a \cap b
                    [] last'.handler = "8XY3" -> (a \cup b) \ (a \cap b)
         IN  /\ regs'.V[15] = 0
             /\ (OpX # 15 => Bits(regs'.V[OpX]) = r)
      ]_vars

\* C8 witness: an 8FF1 (x = y = 15) has run with a non-zero VF before it.
C8_Witness ==
    /\ last.kind = "exec"
    /\ last.ins = Alu(15, 15, 1)
    /\ FetchWord(Machine, settings.rom_off + 4) = Ld(15, 255)
    /\ regs.V[15] = 0

\* C9 as stated: after 8XY4, for every x and y including 15, VF is 1 iff the
\* sum of the Vx and Vy of before exceeds 255, and Vx is that sum mod 256.
C9_Orig ==
    [][Ran("8XY4") =>
         LET sum == regs.V[OpX] + regs.V[OpY]
         IN  /\ regs'.V[15] = (IF sum > 255 THEN 1 ELSE 0)
             /\ (OpX # 15 => regs'.V[OpX] = sum % 256)
      ]_vars

\* C10 as stated: after 8XY5, for every x and y, VF is 1 iff the Vx of before
\* is greater than Vy, and Vx is their difference mod 256.
C10_Orig ==
    [][Ran("8XY5") =>
         LET Vx == regs.V[OpX]
             Vy == regs.V[OpY]
         IN  /\ regs'.V[15] = (IF Vx > Vy THEN 1 ELSE 0)
             /\ (OpX # 15 => regs'.V[OpX] = (Vx - Vy + 256) % 256)
      ]_vars

\* C11 as stated: after 8XY7, for every x and y, VF is 1 iff the Vy of before
\* is greater than Vx, and Vx is Vy - Vx mod 256.
C11_Orig ==
    [][Ran("8XY7") =>
         LET Vx == regs.V[OpX]
             Vy == regs.V[OpY]
         IN  /\ regs'.V[15] = (IF Vy > Vx THEN 1 ELSE 0)
             /\ (OpX # 15 => regs'.V[OpX] = (Vy - Vx + 256) % 256)
      ]_vars

\* the operand of a shift: Vy without --new-shift, Vx with it
ShiftOperand == regs.V[IF settings.new_shift THEN OpX ELSE OpY]

\* C12: after 8XY6 VF is the low bit of the operand and, unless x = 15, Vx is
\* the operand shifted right by one; the shift mode never changes.
C12_ShiftRight ==
    [][/\ settings'.new_shift = settings.new_shift
       /\ Ran("8XY6") =>
             /\ regs'.V[15] = ShiftOperand % 2
             /\ (OpX # 15 => regs'.V[OpX] = ShiftOperand \div 2)
      ]_vars

\* C12 witness: 8F06 has run without --new-shift on V0 = 255 and VF = 0, and
\* VF holds the low bit, not 255 >> 1.
C12_Witness ==
    /\ last.kind = "exec"
    /\ last.ins = Alu(15, 0, 6)
    /\ ~settings.new_shift
    /\ FetchWord(Machine, settings.rom_off) = Ld(0, 255)
    /\ FetchWord(Machine, settings.rom_off + 4) = Ld(15, 0)
    /\ regs.V[15] = 1

\* C13 as stated: after 8XYE VF is bit 7 of the operand and Vx is the operand
\* times two mod 256, for every x and y.
C13_Orig ==
    [][Ran("8XYE") =>
             /\ regs'.V[15] = ShiftOperand \div 128
             /\ regs'.V[OpX] = (ShiftOperand * 2) % 256
      ]_vars

\* C13 amended: after 8XYE VF is bit 7 of the operand for every x and y, and
\* Vx is the operand times two mod 256 for x other than 15.
C13_Amended ==
    [][Ran("8XYE") =>
             /\ regs'.V[15] = ShiftOperand \div 128
             /\ (OpX # 15 => regs'.V[OpX] = (ShiftOperand * 2) % 256)
      ]_vars

\* C13 witness: 8F1E has run with --new-shift on VF = 128: VF is 1, not 0.
C13_Witness ==
    /\ last.kind = "exec"
    /\ last.ins = Alu(15, 1, 14)
    /\ settings.new_shift
    /\ FetchWord(Machine, settings.rom_off + 4) = Ld(15, 128)
    /\ regs.V[15] = 1

\* the sprite rows and columns that a draw of n rows at (Vx, Vy) puts on the
\* pixel with index p, coordinates wrapping
RowsOn(p) ==
    {i \in 0 .. (last'.ins % 16) - 1 : (regs.V[OpY] + i) % SCREEN_H = p \div SCREEN_W}

ColsOn(p) == {j \in 0 .. 7 : (regs.V[OpX] + j) % SCREEN_W = p % SCREEN_W}

\* the number of 1 bits of the sprite at I that fall on the pixel p
HitsOn(p) ==
    Cardinality({b \in RowsOn(p) \X ColsOn(p) :
        (RamRead(Machine, regs.I + b[1]) \div (2 ^ (7 - b[2]))) % 2 = 1})

\* C14: a draw of n rows at (Vx, Vy) XORs every sprite bit into the pixel at
\* ((Vx + j) mod 64, (Vy + i) mod 32) and changes no other pixel; VF is 1 iff
\* some pixel went from on to off, else 0.
C14_DrawXorWrap ==
    [][Ran("DXYN") =>
         /\ DOMAIN pixels' \subseteq 0 .. SCREEN_W * SCREEN_H - 1
         /\ \A p \in 0 .. SCREEN_W * SCREEN_H - 1 :
                MemGet(pixels', p) = (MemGet(pixels, p) + HitsOn(p)) % 2
         /\ regs'.V[15] =
                (IF \E p \in DOMAIN pixels :
                        MemGet(pixels, p) = 1 /\ MemGet(pixels', p) = 0
                 THEN 1 ELSE 0)
      ]_vars

\* C14 witness: the second draw at (255, 255) has turned a pixel off, and
\* pixels are on in the wrapped columns 0..6 and the wrapped rows 0..3.
C14_Witness ==
    /\ last.kind = "exec"
    /\ last.handler = "DXYN"
    /\ nfetch = 5
    /\ regs.V[0] = 255
    /\ regs.V[1] = 255
    /\ regs.V[15] = 1
    /\ \E p \in DOMAIN pixels : p % SCREEN_W < 7 /\ p \div SCREEN_W < 4

\* C15: FX55 and FX65 whose x + 1 bytes lie within the memory each advance I
\* by x + 1, FX55 leaves the registers alone, and an FX65 that follows FX55
\* and a reload of I with the address stored to leaves V0..Vx as they were.
C15_RoundTrip ==
    [][/\ Ran("FX55") /\ fault' = NoFault =>
             /\ regs'.V = regs.V
             /\ regs'.I = regs.I + OpX + 1
       /\ Ran("FX65") /\ fault' = NoFault =>
             /\ regs'.I = regs.I + OpX + 1
             /\ ( /\ last.kind = "exec"
                  /\ last.ins = Ldi(regs.I)
                  /\ FetchWord(Machine, last.pc - 2) = St(OpX)
                  => \A k \in 0 .. OpX : regs'.V[k] = regs.V[k] )
      ]_vars

\* C15 witness: F755 at 0xFF0, I reloaded and F765 have run, V0..V4 hold the
\* font's 0, and I is 8 past the address.
C15_Witness ==
    /\ last.kind = "exec"
    /\ last.ins = Ldr(7)
    /\ FetchWord(Machine, last.pc - 2) = Ldi(4080)
    /\ FetchWord(Machine, last.pc - 4) = St(7)
    /\ regs.I = 4088
    /\ \A k \in 0 .. 4 : regs.V[k] = font_sprites[k + 1]
    /\ RamRead(Machine, 4080) = font_sprites[1]

\* C16: with the ROM 00E0 1200 at 0x200 no cycle is a decode error or stops
\* the CPU clock; after every cycle the display is all-off, every register
\* but PC, the stack and the memory are as loaded, and PC is 0x200 or 0x202,
\* so every second cycle ends in the state the first one started from.
C16_Loop ==
    /\ fault = NoFault
    /\ cpu_armed
    /\ pixels = MemZero
    /\ ram = MemZero
    /\ regs.V = [k \in 0 .. 15 |-> 0]
    /\ regs.I = 0
    /\ regs.SP = 0
    /\ stack = [k \in 0 .. STACK_SZ - 1 |-> 0]
    /\ regs.PC \in {512, 514}
    /\ last.kind = "exec" =>
          /\ ~last.logged
          /\ last.pc \in {512, 514}
          /\ last.handler = (IF last.pc = 512 THEN "00E0" ELSE "1NNN")
          /\ regs.PC = (IF last.pc = 512 THEN 514 ELSE 512)

\* C16 witness: the jump has run a second time and PC is back at 0x200.
C16_Witness ==
    /\ nfetch = 4
    /\ last.kind = "exec"
    /\ last.ins = 4608
    /\ regs.PC = 512
    /\ pixels = MemZero

\* the constant that the word at 2 * k bytes past the entry point loads
Loaded(k) == FetchWord(Machine, settings.rom_off + 2 * k) % 256

\* C17: three executed cycles of 6Aaa 6Bbb 8AB4 leave VA = (a + b) mod 256,
\* VF = 1 iff a + b > 255, and PC 6 past the entry point.
C17_LoadLoadAdd ==
    nfetch = 3 =>
        /\ fault = NoFault
        /\ regs.V[10] = (Loaded(0) + Loaded(1)) % 256
        /\ regs.V[15] = (IF Loaded(0) + Loaded(1) > 255 THEN 1 ELSE 0)
        /\ regs.PC = settings.rom_off + 6
        /\ (Loaded(0) = 2 /\ Loaded(1) = 3 => regs.V[10] = 5 /\ regs.V[15] = 0)
        /\ (Loaded(0) = 255 /\ Loaded(1) = 1 => regs.V[10] = 0 /\ regs.V[15] = 1)

\* C17 witness: 6AFF 6B01 8AB4 has run: VA = 0 and VF = 1.
C17_Witness ==
    /\ nfetch = 3
    /\ Loaded(0) = 255
    /\ Loaded(1) = 1
    /\ regs.V[10] = 0
    /\ regs.V[11] = 1
    /\ regs.V[15] = 1

\* C18: FX18 leaves the delay clock alone; FX15 leaves the sound clock and
\* the playback alone; FX07 changes no clock and returns 0 from a disarmed
\* delay clock whatever the sound clock shows; and while time passes, sound
\* expiry included, the delay clock only loses the time that has passed.
C18_ClocksIndependent ==
    [][/\ Ran("FX18") => delay_timer' = delay_timer
       /\ Ran("FX15") => sound_timer' = sound_timer /\ playing' = playing
       /\ Ran("FX07") =>
             /\ UNCHANGED << delay_timer, sound_timer, playing >>
             /\ (delay_timer = Disarmed => regs'.V[OpX] = 0)
       /\ last'.kind = "elapse" =>
             \E d \in Durations :
                 /\ delay_timer' = Dec(delay_timer, d)
                 /\ sound_timer' = Dec(sound_timer, d)
      ]_vars

\* C18 witness: the sound clock is armed with 30 and playing, the delay
\* clock was never armed, and FX07 has just returned 0 into V1.
C18_Witness ==
    /\ last.kind = "exec"
    /\ last.handler = "FX07"
    /\ regs.V[0] = 30
    /\ regs.V[1] = 0
    /\ playing
    /\ sound_timer # Disarmed
    /\ delay_timer = Disarmed
    /\ \A k \in 1 .. 2 : FetchWord(Machine, settings.rom_off + 2 * k) # 61461

\* C20 as stated, for the instruction: an FX18 that has started playback
\* has armed the sound clock, for every Vx including 0.
C20_Orig ==
    [][Ran("FX18") /\ playing' => sound_timer' # Disarmed]_vars

\* C19: every executed 00E0, the first and the one that follows it, leaves
\* all 64x32 pixels off and changes no register but the program counter,
\* which moves to the next word; VF keeps its value.
C19_ClearTwice ==
    [][Ran("00E0") =>
          /\ \A p \in 0 .. SCREEN_W * SCREEN_H - 1 : MemGet(pixels', p) = 0
          /\ pixels' = MemZero
          /\ regs' = [regs EXCEPT !.PC = last'.pc + 2]
          /\ fault' = NoFault
      ]_vars

\* C19 witness: the glyph was drawn, VF was loaded with 0x55, and the
\* second of the two 00E0 has just run.
C19_Witness ==
    /\ nfetch = 6
    /\ last.kind = "exec"
    /\ last.handler = "00E0"
    /\ last.pc = settings.rom_off + 10
    /\ FetchWord(Machine, settings.rom_off + 4) = Drw(0, 0, 5)
    /\ regs.V[15] = 85
    /\ pixels = MemZero

\* C21 as stated: an FX15 with Vx = v arms the delay clock with v div 60
\* seconds and trunc((v mod 60) * 10^9 / 60) nanoseconds, and an FX07 that
\* follows it with no time elapsed, neither call failing, reads back v.
C21_Orig ==
    [][/\ (Ran("FX15") /\ ~last'.logged) =>
             /\ delay_timer'.sec = regs.V[OpX] \div 60
             \* trunc(r * 10^9 / 60) = r * 16666666 + trunc(2 * r / 3)
             /\ delay_timer'.nsec = (regs.V[OpX] % 60) * 16666666
                                      + (2 * (regs.V[OpX] % 60)) \div 3
       /\ ( /\ Ran("FX07") /\ ~last'.logged
            /\ last.kind = "exec" /\ last.handler = "FX15" /\ ~last.logged
            => regs'.V[OpX] = regs.V[(last.ins \div 256) % 16] )
      ]_vars

\* the keys that are released in the snapshot and pressed on the keyboard
NewlyPressed == {i \in 0 .. NKEYS - 1 : key_state[i] = 0 /\ keyboard[i] # 0}

\* the handlers that do not set the program counter from an operand or from
\* the stack
Sequential == {"00E0", "3XKK", "4XKK", "5XY0", "6XKK", "7XKK", "8XY0", "8XY1",
               "8XY2", "8XY3", "8XY4", "8XY5", "8XY6", "8XY7", "8XYE", "9XY0",
               "ANNN", "CXKK", "DXYN", "EX9E", "EXA1", "FX07", "FX15", "FX18",
               "FX1E", "FX29", "FX33", "FX55", "FX65"}

\* C22: an executed FX0A refreshes the snapshot; with no newly pressed key
\* it leaves the program counter on itself, so the next fetch is the same
\* FX0A; with one, Vx is the lowest newly pressed key and the program counter
\* is 2 further.  No other instruction leaves the program counter on itself
\* unless it is a jump, call or return that targets its own address.
C22_WaitKeyRetry ==
    [][/\ Ran("FX0A") =>
             /\ key_state' = keyboard
             /\ IF NewlyPressed = {}
                THEN regs'.PC = last'.pc
                ELSE /\ regs'.PC = last'.pc + 2
                     /\ regs'.V[OpX] \in NewlyPressed
                     /\ \A i \in NewlyPressed : regs'.V[OpX] <= i
       /\ \A h \in Sequential :
             Ran(h) /\ fault' = NoFault => regs'.PC \in {last'.pc + 2, last'.pc + 4}
      ]_vars

\* C22 witness: FX0A ran with no new press, ran again from the same address
\* when key 3 had been pressed, and stored 3 in V1.
C22_Witness ==
    /\ nfetch >= 3
    /\ last.kind = "exec"
    /\ last.handler = "FX0A"
    /\ last.pc = settings.rom_off + 2
    /\ regs.PC = settings.rom_off + 4
    /\ regs.V[1] = 3
    /\ key_state[3] = 1

\* a step in which EX9E, EXA1 or FX0A was executed
Refreshed == Ran("EX9E") \/ Ran("EXA1") \/ Ran("FX0A")

\* C23: a refresh returns the lowest key that is released in the snapshot
\* and pressed now, or a value outside 0..15 when there is none, and leaves
\* the snapshot equal to the physical state of all 16 keys.
C23_Refresh ==
    [][Refreshed =>
          /\ key_state' = keyboard
          /\ LET ret == update_keystate(key_state, keyboard).ret
             IN  IF NewlyPressed = {}
                 THEN ret \notin 0 .. NKEYS - 1
                 ELSE ret \in NewlyPressed /\ \A i \in NewlyPressed : ret <= i
          /\ Ran("FX0A") => regs'.V[OpX] = update_keystate(key_state, keyboard).ret
      ]_vars

\* C23 witness: FX0A reported key 3, and a later refresh has recorded that
\* key 3 is released and key 15 pressed.
C23_Witness ==
    /\ last.kind = "exec"
    /\ last.handler \in {"EX9E", "EXA1"}
    /\ regs.V[1] = 3
    /\ key_state[3] = 0
    /\ key_state[15] = 1

\* C24: the snapshot changes only in a step that executes EX9E, EXA1 or
\* FX0A (not in a skipped firing, a key event, a timer expiry or any other
\* instruction); and for Vx in 0..15, EX9E skips the next word iff key Vx is
\* pressed on the keyboard that step reads, EXA1 iff it is not.
C24_LazySnapshot ==
    [][/\ key_state' # key_state => Refreshed
       /\ Ran("EX9E") /\ regs.V[OpX] < NKEYS =>
             regs'.PC = last'.pc + (IF keyboard[regs.V[OpX]] # 0 THEN 4 ELSE 2)
       /\ Ran("EXA1") /\ regs.V[OpX] < NKEYS =>
             regs'.PC = last'.pc + (IF keyboard[regs.V[OpX]] # 0 THEN 2 ELSE 4)
      ]_vars

\* C24 witness: EXA1 has just found key 15 pressed, which the snapshot of
\* the refresh before it (made by FX0A, which reported key 3) did not hold,
\* and has not skipped.
C24_Witness ==
    /\ last.kind = "exec"
    /\ last.handler = "EXA1"
    /\ regs.V[0] = 15
    /\ regs.V[1] = 3
    /\ key_state[15] = 1
    /\ regs.PC = last.pc + 2

\* C25 as stated: with lazy rendering off, an executed cycle requests one
\* present iff the number of cycles executed before it is a multiple of the
\* refresh interval, whatever word it executed; with lazy rendering on, it
\* requests one iff it executed 00E0 or DXYN.
C25_Orig ==
    [][nfetch' = nfetch + 1 /\ last'.kind = "exec" /\ fault' = NoFault =>
          last'.presents =
              IF settings.lazy_render
              THEN (IF last'.handler \in {"00E0", "DXYN"} THEN 1 ELSE 0)
              ELSE (IF nfetch % settings.ref_interval = 0 THEN 1 ELSE 0)
      ]_vars

\* the step is the return of sys_start
Returns == last'.kind = "returned" /\ last.kind # "returned"

C27_Orig ==
    [][\A h \in {"FX07", "FX15", "FX18"} :
          Ran(h) /\ last'.logged =>
              /\ regs' = [regs EXCEPT !.PC = last'.pc + 2]
              /\ UNCHANGED << delay_timer, sound_timer, playing, fault >>
      ]_vars

\* C28: an executed FX1E leaves I = (I + Vx) mod 4096 and VF = 1 iff
\* I + Vx > 0x0FFF, both from the values before it, for x = 15 as well.
C28_AddIndex ==
    [][Ran("FX1E") =>
          /\ regs'.I = (regs.I + regs.V[OpX]) % 4096
          /\ regs'.V[15] = (IF regs.I + regs.V[OpX] > 4095 THEN 1 ELSE 0)
      ]_vars

\* C28 witness: FX1E on VF = 255 with I = 0xFFF has left I = 0xFE, VF = 1.
C28_Witness ==
    /\ last.kind = "exec"
    /\ last.ins = Addi(15)
    /\ FetchWord(Machine, settings.rom_off) = Ld(15, 255)
    /\ FetchWord(Machine, settings.rom_off + 2) = Ldi(4095)
    /\ nfetch = 3
    /\ regs.I = 254
    /\ regs.V[15] = 1

\* init_system has returned 0
InitOk == last.kind = "init" /\ last.handler = "ok"

\* C29: init_system fails when a timer cannot be created, the ROM cannot be
\* opened or read, or its length plus the load offset exceeds 4096, and
\* succeeds when none of its calls fails and the ROM fits; the CPU timer is
\* armed only after a successful initialisation and instructions are
\* executed only while it is armed, so none is after a failed one.
C29_InitFails ==
    [][/\ (last.kind = "boot" /\ last'.kind = "init") =>
             /\ last'.handler \in InitCalls \cup {"too_large", "ok"}
             /\ last'.handler = "ok" => Len(rom) + settings.rom_off <= RAM_SZ
             /\ last'.handler = "too_large" => Len(rom) + settings.rom_off > RAM_SZ
             /\ last'.logged = (last'.handler # "ok")
             /\ ~cpu_armed' /\ nfetch' = 0
       /\ (cpu_armed' /\ ~cpu_armed) => InitOk
       /\ nfetch' # nfetch => cpu_armed
       /\ (last.kind = "init" /\ ~InitOk) => ~cpu_armed' /\ nfetch' = 0
       /\ last.kind = "exit" => UNCHANGED vars
      ]_vars

\* C29 witness: a 2-byte ROM loaded at 4094 has been accepted, the CPU timer
\* armed and the first cycle executed.
C29_Witness ==
    /\ settings.rom_off = 4094
    /\ Len(rom) = 2
    /\ cpu_armed
    /\ nfetch = 1
    /\ last.kind = "exec"
    /\ last.pc = 4094

\* ROM region and font region of the memory
RomRegion == settings.rom_off .. settings.rom_off + Len(rom) - 1

FontRegion == settings.font_offset .. settings.font_offset + Len(font_sprites) - 1

\* C30 as stated: whenever init_system has succeeded, nothing was written
\* outside the memory, both regions lie inside 0..4095, the ROM bytes are at
\* the ROM region, the font bytes at the font region, and zero everywhere
\* else.
C30_Orig ==
    InitOk =>
        /\ fault = NoFault
        /\ RomRegion \cup FontRegion \subseteq 0 .. RAM_SZ - 1
        /\ \A a \in 0 .. RAM_SZ - 1 :
              /\ a \in RomRegion => RamRead(Machine, a) = rom[a - settings.rom_off + 1]
              /\ a \in FontRegion =>
                    RamRead(Machine, a) = font_sprites[a - settings.font_offset + 1]
              /\ a \notin RomRegion \cup FontRegion => RamRead(Machine, a) = 0

\* ------------------------------------------------------ nested calls
\* The subroutine at nesting depth i starts at NestAt(i): it calls the
\* subroutine of depth i + 1 and returns; the innermost one only returns.
NestAt(i) == 512 + 4 * i

NestRom ==
    [k \in 1 .. 2 * STACK_SZ + 1 |->
        IF k = 2 * STACK_SZ + 1 \/ k % 2 = 0 THEN 238
        ELSE 8192 + NestAt((k + 1) \div 2)]

\* Nesting depths the exploration starts from.
Depths == {0, 5, 10, 13, 16}

\* The state the ROM NestRom is in when d nested calls have executed, on the
\* frame rbp of the first firing (cycle counts the closing refresh tests,
\* which lazy rendering short-circuits).
InitNested ==
    \E d \in Depths, cfg \in LoopSettings, f \in Frames :
        /\ rom = RomBytes(NestRom)
        /\ settings = cfg
        /\ regs = [V |-> [k \in 0 .. 15 |-> 0], I |-> 0, PC |-> NestAt(d), SP |-> d]
        /\ stack = [k \in 0 .. STACK_SZ - 1 |-> IF k < d THEN NestAt(k) + 2 ELSE 0]
        /\ ram = MemZero
        /\ pixels = MemZero
        /\ key_state = [k \in 0 .. NKEYS - 1 |-> 0]
        /\ keyboard = [k \in 0 .. NKEYS - 1 |-> 0]
        /\ quit = 0
        /\ quit_event = FALSE
        /\ cpu_armed = TRUE
        /\ rbp = (IF d = 0 THEN 0 ELSE f)
        /\ cycle = (IF cfg.lazy_render THEN 0 ELSE d)
        /\ delay_timer = Disarmed
        /\ sound_timer = Disarmed
        /\ playing = FALSE
        /\ fault = NoFault
        /\ firings = << >>
        /\ sound_calls = 0
        /\ nfetch = 0
        /\ last = NoFiring

SpecNested == InitNested /\ [][Next]_vars

\* C31: a call at stack pointer below 16 stores the address after the call
\* at stack[SP], increments SP and sets PC to nnn; a return at SP in 1..16
\* decrements SP and sets PC to the stored address, leaving the stack alone;
\* in the nested ROM every return resumes right after the call made at the
\* depth it returns to, and the stack below SP holds the return addresses of
\* the calls still open, in call order.
C31_CallReturn ==
    /\ [][/\ Ran("2NNN") /\ regs.SP < STACK_SZ =>
                /\ regs' = [regs EXCEPT !.SP = regs.SP + 1, !.PC = last'.ins % 4096]
                /\ stack' = [stack EXCEPT ![regs.SP] = last'.pc + 2]
                /\ fault' = NoFault
          /\ Ran("00EE") /\ regs.SP \in 1 .. STACK_SZ =>
                /\ regs' = [regs EXCEPT !.SP = regs.SP - 1, !.PC = stack[regs.SP - 1]]
                /\ stack' = stack
                /\ fault' = NoFault]_vars
    /\ [](fault = NoFault =>
            /\ \A k \in 0 .. regs.SP - 1 : stack[k] = NestAt(k) + 2
            /\ last.kind = "exec" /\ last.handler = "00EE" => regs.PC = NestAt(regs.SP) + 2
            /\ last.kind = "exec" /\ last.handler = "2NNN" => regs.PC = NestAt(regs.SP))

\* C31 witness: three calls from depth 13 reached depth 16, and the three
\* returns after them have resumed after the first of those calls with the
\* stack pointer back at 13.
C31_Witness ==
    /\ nfetch = 6
    /\ regs.SP = 13
    /\ regs.PC = NestAt(13) + 2
    /\ stack[15] = NestAt(15) + 2
    /\ last.handler = "00EE"
    /\ fault = NoFault

\* ------------------------------------------- what an instruction leaves alone
\* Words after which display, memory, clocks and key snapshot all hold
\* something: 00E0, D005, F033, F155, F165, F215, F218, F107, E19E, E1A1, F10A.
FrameWords ==
    {224, 53253, 61491, 61781, 61797, 61973, 61976, 61703, 57758, 57761, 61706}

\* I at the font, V0 = 156, V2 = 12, then two of the words.
FrameRoms == {<< Ldi(80), Ld(0, 156), Ld(2, 12), a, b >> : a, b \in FrameWords}

FrameSettings ==
    {[DefaultSettings EXCEPT !.lazy_render = l, !.ref_interval = 2] : l \in BOOLEAN}

InitFrame == InitWith(FrameRoms, FrameSettings)

SpecFrame == InitFrame /\ [][NextTimers]_vars

\* the value of the pixel at index p
PixelAt(p) == MemGet(pixels, p)

\* C32: only a step that executes 00E0 or DXYN changes the display buffer
\* (every other instruction, skipped firing, present request and clock event
\* leaves it alone), every pixel is 0 or 1 in every state, and all pixels are
\* off before the first cycle.
C32_DisplayFrame ==
    /\ [][pixels' # pixels => Ran("00E0") \/ Ran("DXYN")]_vars
    /\ [](/\ \A p \in 0 .. SCREEN_W * SCREEN_H - 1 : PixelAt(p) \in {0, 1}
          /\ DOMAIN pixels \subseteq 0 .. SCREEN_W * SCREEN_H - 1
          /\ nfetch = 0 => \A p \in 0 .. SCREEN_W * SCREEN_H - 1 : PixelAt(p) = 0)

\* C32 witness: a draw has lit pixels, the next instruction has armed the
\* sound clock, and time has passed on that clock with the pixels still lit.
C32_Witness ==
    /\ pixels # MemZero
    /\ nfetch = 5
    /\ last.kind = "elapse"
    /\ sound_timer # Disarmed
    /\ sound_timer # Interval(12)
    /\ playing

\* the memory byte at a after the step
RamAfter(a) == IF a \in DOMAIN ram' THEN ram'[a] ELSE ImageAt(rom, settings, a)

\* C33: only a step that executes FX33 or FX55 changes a memory byte; FX33
\* leaves the hundreds, tens and units digit of Vx at I, I+1, I+2 and FX55
\* leaves V0..Vx at I.., and neither changes any other byte.
C33_MemoryFrame ==
    [][/\ ram' # ram => Ran("FX33") \/ Ran("FX55")
       /\ Ran("FX33") /\ fault' = NoFault =>
            \A a \in 0 .. RAM_SZ - 1 :
                RamAfter(a) =
                    (CASE a = regs.I     -> (regs.V[OpX] \div 100) % 10
                       [] a = regs.I + 1 -> (regs.V[OpX] \div 10) % 10
                       [] a = regs.I + 2 -> regs.V[OpX] % 10
                       [] OTHER          -> RamRead(Machine, a))
       /\ Ran("FX55") /\ fault' = NoFault =>
            \A a \in 0 .. RAM_SZ - 1 :
                RamAfter(a) = (IF a \in regs.I .. regs.I + OpX
                               THEN regs.V[a - regs.I]
                               ELSE RamRead(Machine, a))]_vars

\* C33 witness: store-BCD has written the digits 1, 5, 6 of V0 over the
\* font, and a load-registers after it has executed with memory as it was.
C33_Witness ==
    /\ nfetch = 5
    /\ last.kind = "exec"
    /\ last.handler = "FX65"
    /\ RamRead(Machine, 80) = 1
    /\ RamRead(Machine, 81) = 5
    /\ RamRead(Machine, 82) = 6
    /\ regs.V[0] = 1
    /\ regs.V[1] = 5

\* ------------------------------------------------------- the countdown
\* Values the ROMs of SpecCount arm the delay timer with.
CountVals == {0, 1, 2, 30, 61, 255}

\* V0 = v; FX15 on V0; then FX07 into V1 and a jump back to it, for ever.
CountRoms == { << Ld(0, v), 61461, 61703, 4612 >> : v \in CountVals }

InitCount == InitWith(CountRoms, {DefaultSettings})

SpecCount == InitCount /\ [][NextTimers]_vars

\* what FX07 stores for the delay timer showing t
Readback(t) == U8(t.sec * TIMER_HZ + Ticks(t.nsec))

\* C34: a successful FX15 arms the delay timer with at most Vx/60 seconds;
\* a successful FX07 stores the timer's reading; on every step that is not an
\* FX15 the reading does not increase (so it stays 0 once it is 0), and a
\* later FX07 of the loop never stores more than the one before it; a stretch
\* of time takes its length off the timer or, if no more is left, disarms it,
\* and changes nothing else but what the sound timer's expiry does.
C34_Countdown ==
    [][/\ Ran("FX15") /\ ~last'.logged =>
            /\ delay_timer'.sec = regs.V[OpX] \div TIMER_HZ
            /\ delay_timer'.nsec <= (regs.V[OpX] % TIMER_HZ) * 16666667
            /\ delay_timer'.nsec < 1000000000
            /\ Readback(delay_timer') <= regs.V[OpX]
       /\ Ran("FX07") /\ ~last'.logged => regs'.V[OpX] = Readback(delay_timer)
       /\ ~Ran("FX15") => Readback(delay_timer') <= Readback(delay_timer)
       /\ ( /\ Ran("FX07") /\ ~last'.logged
            /\ FetchWord(Machine, last'.pc - 2) = 4612
            /\ FetchWord(Machine, last'.pc - 4) = 61461
            => regs'.V[OpX] <= regs.V[OpX] )
       /\ last'.kind = "elapse" /\ keyboard' = keyboard =>
            /\ \/ delay_timer' = Disarmed
               \/ \E d \in Durations : Dec(delay_timer, d) = delay_timer'
            /\ UNCHANGED << regs, stack, ram, pixels, key_state, quit,
                            cpu_armed, cycle, fault, nfetch >>
            /\ playing' # playing \/ last'.logged =>
                    sound_timer # Disarmed /\ sound_timer' = Disarmed
      ]_vars

\* C34 witness: armed with 30, the second reading of the loop is 0: the half
\* second has passed and the timer has disarmed itself.
C34_Witness ==
    /\ regs.V[0] = 30
    /\ nfetch = 5
    /\ last.kind = "exec"
    /\ last.handler = "FX07"
    /\ ~last.logged
    /\ regs.V[1] = 0
    /\ delay_timer = Disarmed

\* C35 as stated: a step at whose end the quit flag is set, the one of the
\* firing that observed the quit event included, fetches no instruction and
\* changes no register, memory, display, timer or audio state.
C35_Orig ==
    [][quit' = 1 =>
          /\ nfetch' = nfetch
          /\ UNCHANGED << regs, stack, ram, pixels, key_state, delay_timer,
                          sound_timer, playing >>
      ]_vars

\* ------------------------------------------- the sound timer's callback
\* The sound timer is created with SIGEV_THREAD: its expiry dispatches
\* sound_timeout on a thread of its own, which runs some time later.

\* d nanoseconds pass while a timer is armed; an expiry of the sound timer
\* dispatches a sound_timeout call.
Expire(d) ==
    /\ fault = NoFault
    /\ firings = << >>
    /\ delay_timer # Disarmed \/ sound_timer # Disarmed
    /\ delay_timer' = Dec(delay_timer, d)
    /\ sound_timer' = Dec(sound_timer, d)
    /\ sound_calls' = (IF SoundDue(d) THEN sound_calls + 1 ELSE sound_calls)
    /\ last' = [NoFiring EXCEPT !.kind = "elapse"]
    /\ UNCHANGED << regs, stack, rom, ram, pixels, key_state, keyboard, settings,
                    quit, quit_event, cpu_armed, rbp, cycle, playing, fault,
                    firings, nfetch >>

\* system.c: sound_timeout, a dispatched call running between two firings
sound_timeout ==
    /\ fault = NoFault
    /\ firings = << >>
    /\ sound_calls > 0
    /\ sound_calls' = sound_calls - 1
    /\ \E stop_fails \in BOOLEAN :
          /\ playing' = stop_playback(Machine, stop_fails).playing
          /\ last' = [NoFiring EXCEPT !.kind = "timeout", !.logged = stop_fails]
    /\ UNCHANGED << regs, stack, rom, ram, pixels, key_state, keyboard, settings,
                    quit, quit_event, cpu_armed, rbp, cycle, delay_timer,
                    sound_timer, fault, firings, nfetch >>

\* Values the ROMs of SpecSound arm the sound timer with.
SoundVals == {2, 6, 30}

\* V0 = v; then FX18 on V0 and a jump back to it, for ever.
SoundRoms == { << Ld(0, v), 61464, 4610 >> : v \in SoundVals }

InitSound == InitWith(SoundRoms, {DefaultSettings})

NextSound ==
    \/ ConsumeIns
    \/ \E d \in Durations : Expire(d)
    \/ sound_timeout

SpecSound == InitSound /\ [][NextSound]_vars

\* C36 as stated: whatever the order of the expiry callback and FX18, audio
\* that is playing is not stopped by a step that leaves the sound timer
\* armed.
C36_Orig ==
    [][playing /\ sound_timer' # Disarmed => playing']_vars

\* ------------------------------------------------------ drawing twice
\* Start coordinates of the repeated draw.
PairAt == {0, 2, 30, 62, 255}

\* I = the font; the digit 0 drawn at (0, 0); V0 = k; then the same draw of n
\* rows at (V0, V0) or (V0, V1) twice.
PairRoms ==
    { << Ldi(DefaultSettings.font_offset), Drw(1, 1, 5), Ld(0, k),
         Drw(0, y, n), Drw(0, y, n) >> :
        k \in PairAt, y \in {0, 1}, n \in {0, 1, 5, 15} }

InitPair == InitWith(PairRoms, FrameSettings)

SpecPair == InitPair /\ [][Next]_vars

\* the repeated draw instruction of the ROM
PairWord == FetchWord(Machine, settings.rom_off + 8)

\* the display before the first draw of the pair: the font's digit 0 at (0, 0)
FirstPattern(p) ==
    IF p \div SCREEN_W < 5 /\ p % SCREEN_W < 8
    THEN (font_sprites[p \div SCREEN_W + 1] \div (2 ^ (7 - (p % SCREEN_W)))) % 2
    ELSE 0

\* the pixels that a 1 bit of the sprite of the repeated draw falls on
PairHits ==
    { ((regs.V[(PairWord \div 16) % 16] + b[1]) % SCREEN_H) * SCREEN_W
          + ((regs.V[(PairWord \div 256) % 16] + b[2]) % SCREEN_W) :
        b \in {c \in (0 .. (PairWord % 16) - 1) \X (0 .. 7) :
                  (RamRead(Machine, regs.I + c[1]) \div (2 ^ (7 - c[2]))) % 2 = 1} }

\* C37: when the same draw has executed twice in a row, the display is what
\* it was before the first of the two, and VF is 1 iff the first of the two
\* turned on a pixel that was off.
C37_DrawTwice ==
    nfetch = 5 /\ fault = NoFault =>
        /\ \A p \in 0 .. SCREEN_W * SCREEN_H - 1 : PixelAt(p) = FirstPattern(p)
        /\ regs.V[15] = (IF \E p \in PairHits : FirstPattern(p) = 0 THEN 1 ELSE 0)

\* C37 witness: the 15-row draw at (255, 255), wrapped both ways and partly
\* over the digit, has executed twice, and the second has turned pixels off.
C37_Witness ==
    /\ nfetch = 5
    /\ fault = NoFault
    /\ last.kind = "exec"
    /\ last.ins = Drw(0, 0, 15)
    /\ regs.V[0] = 255
    /\ regs.V[15] = 1
    /\ PixelAt(0) = 1

\* C38 as stated: an FX0A that finds no newly pressed key leaves the program
\* counter on itself and every register V0..VF, Vx included, as it was; one
\* that finds a new press stores a key number 0..15 in Vx.
C38_Orig ==
    [][Ran("FX0A") =>
          IF NewlyPressed = {}
          THEN regs'.PC = last'.pc /\ regs'.V = regs.V
          ELSE regs'.V[OpX] \in 0 .. NKEYS - 1
      ]_vars

====
